---- MODULE Spec2Model ----
(***************************************************************************)
(* A model of the chat server's synchronization engine                     *)
(* (src/prisma/seed.js, the part that starts at "// server/index.js"):     *)
(* the socket handlers for messages, pins, reactions, mentions and read    *)
(* receipts, the read-receipt flush timer and the thread endpoint.         *)
(*                                                                         *)
(* Every handler is an async function: between two awaited store calls     *)
(* other handlers may run.  A handler is modelled as a slot of `handlers`  *)
(* that moves from one awaited store call to the next; one action is one   *)
(* store call together with the synchronous code that follows it up to     *)
(* the next await (or to the end of the handler).                          *)
(***************************************************************************)
EXTENDS Integers, Sequences, FiniteSets, TLC

VARIABLES
    messages,          \* Message table: id -> row
    nextMessageId,     \* AUTOINCREMENT of Message.id
    reactions,         \* Reaction table: a set of rows
    nextReactionId,    \* AUTOINCREMENT of Reaction.id
    mentions,          \* Mention table: id -> row
    nextMentionId,     \* AUTOINCREMENT of Mention.id
    editHistory,       \* MessageHistory table: the rows in creation order
    messageReads,      \* MessageRead table: a set of rows
    nextReadId,        \* AUTOINCREMENT of MessageRead.id
    readReceiptBuffer, \* the Map messageId -> Set(userId), in insertion order
    batches,           \* the events of the last flush of a buffer that held some
    receipts,          \* history: per (message, user), the insertions counted
    bookmarks,         \* Bookmark table: a set of rows
    nextBookmarkId,    \* AUTOINCREMENT of Bookmark.id
    devices,           \* Device table: a set of rows
    nextDeviceId,      \* AUTOINCREMENT of Device.id
    sockets,           \* socket id -> the user and the state of the connection
    client,            \* the pins that one ChatRoom session shows
    now,               \* the server clock, in minutes
    handlers,          \* the socket handlers in flight, one per slot
    serial,            \* TRUE: a request starts only when none is in flight
    last,              \* history: the request completed last (serial runs)
    prev               \* history: the request completed before `last`

vars == <<messages, nextMessageId, reactions, nextReactionId, mentions,
          nextMentionId, editHistory, messageReads, nextReadId,
          readReceiptBuffer, batches, receipts, bookmarks, nextBookmarkId,
          devices, nextDeviceId, sockets, client, now, handlers, serial, last,
          prev>>

reactVars == <<reactions, nextReactionId>>
mentionVars == <<mentions, nextMentionId, editHistory>>
readVars == <<messageReads, nextReadId, readReceiptBuffer, batches, receipts>>
bookmarkVars == <<bookmarks, nextBookmarkId>>
deviceVars == <<devices, nextDeviceId, sockets>>

\* what send_message leaves alone
sendFrame == <<now, serial, reactVars, editHistory, readVars, bookmarkVars,
    deviceVars>>

\* what the pin, delete and restore handlers leave alone, the Message table apart
msgFrame == <<now, serial, reactVars, mentionVars, readVars, bookmarkVars,
    deviceVars>>

\* what the reaction handlers leave alone, the Reaction table apart
reactFrame == <<messages, nextMessageId, now, serial, mentionVars, readVars, bookmarkVars,
    deviceVars>>

\* what edit_message and mark_mention_read leave alone, the Message,
\* Mention and MessageHistory tables apart
mentionFrame == <<nextMessageId, nextMentionId, now, serial, reactVars, readVars, bookmarkVars,
    deviceVars>>

\* what mark_read and the flush timer leave alone, the MessageRead table
\* and the buffer apart
readFrame == <<messages, nextMessageId, now, serial, reactVars, mentionVars, bookmarkVars,
    deviceVars>>

\* what the bookmark endpoint leaves alone, the Bookmark table apart
bookmarkFrame == <<messages, nextMessageId, now, serial, reactVars, mentionVars, readVars,
    deviceVars>>

\* what the connection handlers and the device endpoint leave alone, the
\* Device table and the connections apart
deviceFrame == <<messages, nextMessageId, now, serial, reactVars, mentionVars, readVars,
    bookmarkVars>>

----------------------------------------------------------------------------
(* Bounds of the model *)

MaxMsgs == 2
NumUsers == 2
NumSlots == 2
MaxNow == 1
MaxReactionId == 3
MaxEdits == 1
MaxReads == 2
MaxThread == 3
MaxCount == 2
MaxBookmarks == 2
MaxSockets == 2

(* Program constants *)

Null == 0
SUPERUSER == 1
\* 5 * 60 * 1000 ms, in minutes
EditWindow == 5

Users == 1..NumUsers
\* the users of the requests where the number of users does not matter: the
\* superuser and one ordinary user (every other ordinary user behaves like
\* that one)
Actors == {SUPERUSER, SUPERUSER + 1}
Slots == 1..NumSlots
MsgIds == 1..MaxMsgs
\* ids a request may name: every id that can exist, and one that never does
TargetIds == 1..(MaxMsgs + 1)
Contents == {"a", "b"}
Emojis == {"+1", "heart"}
\* the messages of the reaction toggler's requests: the first message and an
\* id that names no message
ReactTargets == {1, MaxMsgs + 1}
\* the (message, user) pairs of the mark_read requests: both users read the
\* first message, one reads the second, one names an id without a message
ReadPairs == ({1} \X Actors) \cup {<<2, SUPERUSER>>, <<MaxMsgs + 1, SUPERUSER>>}

----------------------------------------------------------------------------
(* Rooms and events *)

General == [room |-> "general", id |-> 0]

\* one connection, as the target of io.sockets.sockets.get(id).emit
Session(s) == [room |-> "session", id |-> s]

\* a room that every session has joined
UserRoomShared(u) == [room |-> "general", id |-> 0]

UserRoom(u) == [room |-> "user", id |-> u]
SocketOf(h) == [room |-> "socket", id |-> h]

Ev(to, name, id, arg) == [to |-> to, ev |-> name, messageId |-> id, arg |-> arg]

\* an error notice sent to the shared room
ErrorEvBroadcast(h, text) == [to |-> General, ev |-> "error", messageId |-> 0, arg |-> text]

ErrorEv(h, text) == [to |-> SocketOf(h), ev |-> "error", messageId |-> 0, arg |-> text]

----------------------------------------------------------------------------
(* The pins of a ChatRoom session in live view *)

\* no session is open
NoClient == [live |-> FALSE, isPinned |-> << >>, pinnedMessage |-> Null]

\* the session after loadData on an empty store: messages is [], and
\* pinnedMessage is null
LoadedClient == [live |-> TRUE, isPinned |-> << >>, pinnedMessage |-> Null]

\* the list with the entry of message m set to flag (added when missing)
WithEntry(list, m, flag) ==
    [i \in DOMAIN list \cup {m} |-> IF i = m THEN flag ELSE list[i]]

\* on('message_pinned'): a new pin clears the flag of every entry, the
\* entry of the message (if there is one) takes isPinned, and the banner
\* is the entry found (undefined when there is none) or, after an unpin of
\* the message in the banner, null
OnMessagePinned(cl, messageId, isPinned) ==
    LET cleared == IF isPinned THEN [i \in DOMAIN cl.isPinned |-> FALSE]
                   ELSE cl.isPinned
        newMsgs == [i \in DOMAIN cleared |-> IF i = messageId THEN isPinned
                                             ELSE cleared[i]] IN
    [cl EXCEPT !.isPinned = newMsgs,
               !.pinnedMessage =
                   IF isPinned
                   THEN (IF messageId \in DOMAIN newMsgs THEN messageId ELSE Null)
                   ELSE (IF @ = messageId THEN Null ELSE @)]

\* the session after one event of the room 'general': new_message appends
\* the message (not pinned), message_deleted filters it out,
\* message_restored puts it back as the server sent it
OnEvent(cl, ev) ==
    IF ~cl.live \/ ev.to # General THEN cl
    ELSE IF ev.ev = "new_message"
    THEN [cl EXCEPT !.isPinned = WithEntry(@, ev.messageId, FALSE)]
    ELSE IF ev.ev = "message_pinned"
    THEN OnMessagePinned(cl, ev.messageId, ev.arg)
    ELSE IF ev.ev = "message_deleted"
    THEN [cl EXCEPT !.isPinned = [i \in DOMAIN @ \ {ev.messageId} |-> @[i]]]
    ELSE IF ev.ev = "message_restored"
    THEN [cl EXCEPT !.isPinned = WithEntry(@, ev.messageId, ev.arg.isPinned)]
    ELSE cl

\* the session after the events evs, delivered in the order of their emission
RECURSIVE Deliver(_, _)
Deliver(cl, evs) ==
    IF evs = << >> THEN cl ELSE Deliver(OnEvent(cl, Head(evs)), Tail(evs))

----------------------------------------------------------------------------
(* Handler slots *)

NoMsg == [id |-> 0]

Idle == [op |-> "idle", pc |-> "idle", user |-> 0, messageId |-> 0,
         arg |-> "none", msg |-> NoMsg, out |-> <<>>, pre |-> NoMsg]

NoRequest == [op |-> "none"]

IsIdle(h) == handlers[h].pc = "idle"

AllIdle == \A h \in Slots : IsIdle(h)

\* a request may start on slot h: the slots are interchangeable, a request
\* takes the first free one
CanStart(h) == /\ IsIdle(h)
               /\ \A k \in 1..(h - 1) : ~IsIdle(k)
               /\ serial => AllIdle

\* history: the store as a request finds it (kept in serial runs)
Snapshot ==
    IF serial
    THEN [messages |-> messages, reactions |-> reactions, mentions |-> mentions,
          editHistory |-> editHistory, now |-> now, devices |-> devices,
          sockets |-> sockets]
    ELSE NoMsg

RowOf(msgs, m) == IF m \in DOMAIN msgs THEN msgs[m] ELSE NoMsg

IsRow(r) == "userId" \in DOMAIN r

\* history: the request before the one that ends now (next) is kept only
\* where a property needs it: for two toggle_reaction requests, for two
\* calls of the thread endpoint, and for send_message before
\* mark_mention_read
Older(rec, next) ==
    IF \/ rec.op = next.op /\ rec.op \in {"toggle", "thread"}
       \/ rec.op = "send" /\ next.op = "mark_mention_read"
    THEN rec ELSE NoRequest

\* the record kept of a completed request
Completed(h, hrec) ==
    [op |-> hrec.op, user |-> hrec.user, messageId |-> hrec.messageId,
     arg |-> hrec.arg, out |-> hrec.out, pre |-> hrec.pre, socket |-> SocketOf(h)]

\* slot h ends with handler record hrec: the slot is free again.  The
\* history keeps the request in serial runs and in runs that a ChatRoom
\* session observes.
Finish(h, hrec) ==
    /\ handlers' = [handlers EXCEPT ![h] = Idle]
    /\ client' = Deliver(client, hrec.out)
    /\ IF serial \/ client.live
       THEN last' = Completed(h, hrec) /\ prev' = Older(last, hrec)
       ELSE UNCHANGED <<last, prev>>

\* slot h goes on to its next store call
Continue(h, hrec) ==
    /\ handlers' = [handlers EXCEPT ![h] = hrec]
    /\ UNCHANGED <<client, last, prev>>

Begin(op, u, m, arg) ==
    [op |-> op, pc |-> "start", user |-> u, messageId |-> m, arg |-> arg,
     msg |-> NoMsg, out |-> <<>>, pre |-> Snapshot]

Emit(hrec, evs) == [hrec EXCEPT !.out = hrec.out \o evs]

----------------------------------------------------------------------------
(* The Message table *)

Exists(m) == m \in DOMAIN messages

\* expiresAt: data.expiresAt ? new Date(data.expiresAt) : null
NewMessage(u, content, parentId, expiresAt) ==
    [userId |-> u, content |-> content, parentId |-> parentId,
     createdAt |-> now, isDeleted |-> FALSE, isPinned |-> FALSE,
     wasPinned |-> FALSE, expiresAt |-> expiresAt, linkMetadata |-> "null"]

\* prisma.message.create: a new row under the next id
MessageCreate(row) ==
    /\ messages' = [i \in DOMAIN messages \cup {nextMessageId} |->
                       IF i = nextMessageId THEN row ELSE messages[i]]
    /\ nextMessageId' = nextMessageId + 1

\* a pin that skips the clearing of the other pins
ClearPinsSkipped(msgs) == msgs

\* prisma.message.updateMany({where: {isPinned: true}, data: {isPinned: false}})

ClearPins(msgs) == [i \in DOMAIN msgs |-> [msgs[i] EXCEPT !.isPinned = FALSE]]

Pinned == {i \in DOMAIN messages : messages[i].isPinned}

----------------------------------------------------------------------------
(* send_message *)

\* sanitizeHtml(content, sanitizeConfig): a script element is dropped with
\* its text, the contents of the model's other messages are clean
Sanitize(content) == IF content = "<script>a</script>" THEN "" ELSE content

\* the order in which mentionUserIds lists the users
RECURSIVE SetToSeq(_)
SetToSeq(S) ==
    IF S = {} THEN <<>>
    ELSE LET x == CHOOSE y \in S : \A z \in S : y <= z
         IN <<x>> \o SetToSeq(S \ {x})

\* mentions: { create: mentionData }: one unread row per named user
MentionsCreate(m, users) ==
    LET us == SetToSeq(users) IN
    /\ mentions' = [i \in DOMAIN mentions \cup
                            (nextMentionId..(nextMentionId + Len(us) - 1)) |->
                       IF i \in DOMAIN mentions THEN mentions[i]
                       ELSE [userId |-> us[i - nextMentionId + 1], messageId |-> m,
                             isRead |-> FALSE, readAt |-> Null]]
    /\ nextMentionId' = nextMentionId + Len(us)

\* cleanContent.match(/https?:\/\/[^\s]+/): of the model's contents, the
\* one that holds a URL
HasUrl(content) == content = "http://a"

\* a send_message whose create is not held to Message_parentId_fkey
SendHandlerUnchecked(h, u, content, replyToId, mentionUserIds, expiresAt) ==
    /\ CanStart(h)
    /\ LET clean == Sanitize(content)
           req == Begin("send", u, nextMessageId, clean) IN
       /\ MessageCreate(NewMessage(u, clean, replyToId, expiresAt))
       /\ MentionsCreate(nextMessageId, mentionUserIds)
       /\ Finish(h, Emit(req, <<Ev(General, "new_message", nextMessageId,
                                   [content |-> clean, userId |-> u,
                                    mentions |-> SetToSeq(mentionUserIds)])>>))
    /\ UNCHANGED sendFrame

\* socket.on('send_message'): create the row with its mentions, broadcast
\* new_message.  A replyToId that names no message violates
\* Message_parentId_fkey: the create throws and the handler reports the
\* error to its socket.  For a content with a URL the handler starts
\* ogs() without awaiting it and returns: the slot keeps the pending
\* preview (pc "ogs").
SendHandler(h, u, content, replyToId, mentionUserIds, expiresAt) ==
    /\ CanStart(h)
    /\ LET clean == Sanitize(content)
           req == Begin("send", u, nextMessageId, clean) IN
       IF replyToId = Null \/ Exists(replyToId)
       THEN /\ MessageCreate(NewMessage(u, clean, replyToId, expiresAt))
            /\ MentionsCreate(nextMessageId, mentionUserIds)
            /\ LET sent == Emit(req, <<Ev(General, "new_message", nextMessageId,
                                          [content |-> clean, userId |-> u,
                                           mentions |-> SetToSeq(mentionUserIds)])>>) IN
               IF HasUrl(clean)
               THEN Continue(h, [sent EXCEPT !.pc = "ogs"])
               ELSE Finish(h, sent)
       ELSE /\ UNCHANGED <<messages, nextMessageId, mentions, nextMentionId>>
            /\ Finish(h, Emit(req, <<ErrorEv(h, "Failed to send message")>>))
    /\ UNCHANGED sendFrame

\* ogs().then: result.success, the row is updated with the metadata and
\* message_updated is broadcast; an update of a row that is gone throws
\* into .catch, which logs
PreviewFetched(h) ==
    LET hrec == handlers[h] IN
    /\ hrec.op = "send" /\ hrec.pc = "ogs"
    /\ IF Exists(hrec.messageId)
       THEN /\ messages' = [messages EXCEPT ![hrec.messageId].linkMetadata = "og"]
            /\ Finish(h, Emit(hrec, <<Ev(General, "message_updated", hrec.messageId,
                                         [linkMetadata |-> "og"])>>))
       ELSE /\ UNCHANGED messages
            /\ Finish(h, hrec)
    /\ UNCHANGED <<nextMessageId, mentions, nextMentionId>>
    /\ UNCHANGED sendFrame

\* a failed preview that reports to the sender
PreviewFailedReported(h) ==
    LET hrec == handlers[h] IN
    /\ hrec.op = "send" /\ hrec.pc = "ogs"
    /\ Finish(h, Emit(hrec, <<ErrorEv(h, "Failed to send message")>>))
    /\ UNCHANGED <<messages, nextMessageId, mentions, nextMentionId>>
    /\ UNCHANGED sendFrame

\* ogs() resolves with result.success false (.then returns) or rejects
\* (.catch logs a warning): nothing is written, nothing is emitted
PreviewFailed(h) ==
    LET hrec == handlers[h] IN
    /\ hrec.op = "send" /\ hrec.pc = "ogs"
    /\ Finish(h, hrec)
    /\ UNCHANGED <<messages, nextMessageId, mentions, nextMentionId>>
    /\ UNCHANGED sendFrame

\* send_message without expiresAt
NewMessageHandler(h, u, content, replyToId, mentionUserIds) ==
    SendHandler(h, u, content, replyToId, mentionUserIds, Null)

\* a message sent while the table holds fewer than MaxMsgs messages
SendMessage(h, u, content, replyToId, mentionUserIds) ==
    /\ nextMessageId <= MaxMsgs
    /\ NewMessageHandler(h, u, content, replyToId, mentionUserIds)

\* a message sent with replyToId while the table holds fewer than MaxThread
\* messages
SendReply(h, u, replyToId) ==
    /\ nextMessageId <= MaxThread
    /\ NewMessageHandler(h, u, "a", replyToId, {})

----------------------------------------------------------------------------
(* pin_message *)

\* socket.on('pin_message'), isPinned = true, first store call: clear every pin
PinClear(h, m) ==
    /\ CanStart(h)
    /\ messages' = ClearPins(messages)
    /\ Continue(h, [Begin("pin", 0, m, TRUE) EXCEPT !.pc = "pin_update"])
    /\ UNCHANGED <<nextMessageId, msgFrame>>

\* the update of the target row and the broadcast; prisma.message.update
\* throws when the row does not exist
PinUpdateOf(h, hrec) ==
    IF Exists(hrec.messageId)
    THEN /\ messages' = [messages EXCEPT ![hrec.messageId].isPinned = hrec.arg]
         /\ Finish(h, Emit(hrec, <<Ev(General, "message_pinned", hrec.messageId, hrec.arg)>>))
    ELSE /\ UNCHANGED messages
         /\ Finish(h, Emit(hrec, <<ErrorEv(h, "Failed to pin message")>>))

\* isPinned = true, second store call
PinSet(h) ==
    /\ handlers[h].pc = "pin_update"
    /\ PinUpdateOf(h, handlers[h])
    /\ UNCHANGED <<nextMessageId, msgFrame>>

\* isPinned = false: the update is the only store call
Unpin(h, m) ==
    /\ CanStart(h)
    /\ PinUpdateOf(h, Begin("pin", 0, m, FALSE))
    /\ UNCHANGED <<nextMessageId, msgFrame>>

----------------------------------------------------------------------------
(* delete_message *)

\* a delete that does not check the requester
DeleteReadUnchecked(h, u, m) ==
    /\ CanStart(h)
    /\ LET req == Begin("delete", u, m, "none") IN
       IF ~Exists(m)
       THEN Finish(h, req)
       ELSE Continue(h, [req EXCEPT !.pc = "delete_update", !.msg = messages[m]])
    /\ UNCHANGED <<messages, nextMessageId, msgFrame>>

\* handleDeleteMessage, first store call: findUnique, then the checks
DeleteRead(h, u, m) ==
    /\ CanStart(h)
    /\ LET req == Begin("delete", u, m, "none") IN
       IF ~Exists(m)
       THEN Finish(h, req)
       ELSE IF messages[m].userId # u /\ u # SUPERUSER
       THEN Finish(h, Emit(req, <<ErrorEv(h, "Unauthorized")>>))
       ELSE Continue(h, [req EXCEPT !.pc = "delete_update", !.msg = messages[m]])
    /\ UNCHANGED <<messages, nextMessageId, msgFrame>>

\* a delete that also blanks the content
DeleteDataBlanked(row, msg) ==
    [row EXCEPT !.isDeleted = TRUE, !.isPinned = FALSE, !.wasPinned = msg.isPinned,
                !.content = ""]

\* a delete that does not record the pin
DeleteDataNoRecord(row, msg) ==
    [row EXCEPT !.isDeleted = TRUE, !.isPinned = FALSE]

\* the data of the update: wasPinned is the isPinned that findUnique read
DeleteData(row, msg) ==
    [row EXCEPT !.isDeleted = TRUE, !.isPinned = FALSE, !.wasPinned = msg.isPinned]

\* second store call: the update, then the broadcasts
DeleteUpdate(h) ==
    /\ handlers[h].pc = "delete_update"
    /\ LET hrec == handlers[h]
           m == hrec.messageId IN
       IF Exists(m)
       THEN /\ messages' = [messages EXCEPT ![m] = DeleteData(messages[m], hrec.msg)]
            /\ Finish(h, Emit(hrec,
                   (IF hrec.msg.isPinned
                    THEN <<Ev(General, "message_pinned", m, FALSE)>> ELSE <<>>)
                   \o <<Ev(General, "message_deleted", m, "none")>>))
       ELSE /\ UNCHANGED messages
            /\ Finish(h, Emit(hrec, <<ErrorEv(h, "Record to update not found")>>))
    /\ UNCHANGED <<nextMessageId, msgFrame>>

----------------------------------------------------------------------------
(* restore_message *)

\* socket.on('restore_message'), first store call: findUnique, author check
RestoreRead(h, u, m) ==
    /\ CanStart(h)
    /\ LET req == Begin("restore", u, m, "none") IN
       IF ~Exists(m) \/ messages[m].userId # u
       THEN Finish(h, req)
       ELSE Continue(h, [req EXCEPT !.pc = "restore_update", !.msg = messages[m]])
    /\ UNCHANGED <<messages, nextMessageId, msgFrame>>

\* a restore that keeps the record of the pin
RestoreDataKeepsRecord(row, msg) ==
    [row EXCEPT !.isDeleted = FALSE, !.isPinned = msg.wasPinned]

\* the data of the update: isPinned is the wasPinned that findUnique read
RestoreData(row, msg) ==
    [row EXCEPT !.isDeleted = FALSE, !.isPinned = msg.wasPinned, !.wasPinned = FALSE]

\* prisma.bookmark.findMany({where: {messageId}}) and, for each row bm in
\* the order of the ids, bookmark_updated to the room of bm.userId
RECURSIVE BookmarkNotices(_, _)
BookmarkNotices(rows, m) ==
    LET found == {r \in rows : r.messageId = m} IN
    IF found = {} THEN << >>
    ELSE LET bm == CHOOSE r \in found : \A q \in found : r.id <= q.id
         IN <<Ev(UserRoom(bm.userId), "bookmark_updated", m, TRUE)>>
            \o BookmarkNotices(rows \ {bm}, m)

\* second store call: the update, then the broadcasts and the notices to
\* the users who bookmarked the message; a failed update is caught and
\* logged only
RestoreUpdate(h) ==
    /\ handlers[h].pc = "restore_update"
    /\ LET hrec == handlers[h]
           m == hrec.messageId IN
       IF Exists(m)
       THEN /\ messages' = [messages EXCEPT ![m] = RestoreData(messages[m], hrec.msg)]
            /\ Finish(h, Emit(hrec,
                   <<Ev(General, "message_restored", m,
                        [isPinned |-> hrec.msg.wasPinned])>>
                   \o (IF hrec.msg.wasPinned
                       THEN <<Ev(General, "message_pinned", m, TRUE)>> ELSE <<>>)
                   \o BookmarkNotices(bookmarks, m)))
       ELSE /\ UNCHANGED messages
            /\ Finish(h, hrec)
    /\ UNCHANGED <<nextMessageId, msgFrame>>

----------------------------------------------------------------------------
(* toggle_reaction *)

\* the rows of one (user, message, emoji) triple
RowsOf(rows, u, m, e) ==
    {r \in rows : r.userId = u /\ r.messageId = m /\ r.emoji = e}

\* a create that no unique index guards
ReactionCreateNoIndex(rows, id, u, m, e) ==
    rows \cup {[id |-> id, userId |-> u, messageId |-> m, emoji |-> e]}

\* prisma.reaction.create under Reaction_userId_messageId_emoji_key: the
\* rows after the create; they are unchanged when the create throws
ReactionCreate(rows, id, u, m, e) ==
    IF RowsOf(rows, u, m, e) # {}
    THEN rows
    ELSE rows \cup {[id |-> id, userId |-> u, messageId |-> m, emoji |-> e]}

\* a delete by message and emoji instead of by id
ReactionDeleteAllUsers(rows, row) ==
    {r \in rows : ~(r.messageId = row.messageId /\ r.emoji = row.emoji)}

\* prisma.reaction.delete({where: {id}})
ReactionDelete(rows, row) == {r \in rows : r.id # row.id}

\* socket.on('toggle_reaction'), first store call: findUnique on the triple
ToggleFind(h, u, m, e) ==
    /\ CanStart(h)
    /\ nextReactionId <= MaxReactionId
    /\ LET req == Begin("toggle", u, m, e)
           found == RowsOf(reactions, u, m, e) IN
       IF found # {}
       THEN Continue(h, [req EXCEPT !.pc = "toggle_delete",
                                    !.msg = CHOOSE r \in found : TRUE])
       ELSE Continue(h, [req EXCEPT !.pc = "toggle_create"])
    /\ UNCHANGED <<reactVars, reactFrame>>

\* the row existed: delete it by id and broadcast the removal; a delete of
\* a row that is gone throws, which is caught and logged
ToggleDelete(h) ==
    /\ handlers[h].pc = "toggle_delete"
    /\ LET hrec == handlers[h] IN
       IF hrec.msg \in reactions
       THEN /\ reactions' = ReactionDelete(reactions, hrec.msg)
            /\ Finish(h, Emit(hrec, <<Ev(General, "message_reaction_removed",
                       hrec.messageId, [emoji |-> hrec.arg, userId |-> hrec.user])>>))
       ELSE /\ UNCHANGED reactions
            /\ Finish(h, hrec)
    /\ UNCHANGED <<nextReactionId, reactFrame>>

\* the row did not exist: create it and broadcast the addition; a create
\* for a message that does not exist (Reaction_messageId_fkey) or for a
\* triple that exists by now throws, which is caught and logged
ToggleCreate(h) ==
    /\ handlers[h].pc = "toggle_create"
    /\ LET hrec == handlers[h]
           after == IF Exists(hrec.messageId)
                    THEN ReactionCreate(reactions, nextReactionId, hrec.user,
                                        hrec.messageId, hrec.arg)
                    ELSE reactions IN
       IF after # reactions
       THEN /\ reactions' = after
            /\ nextReactionId' = nextReactionId + 1
            /\ Finish(h, Emit(hrec, <<Ev(General, "message_reaction_added",
                       hrec.messageId,
                       [id |-> nextReactionId, emoji |-> hrec.arg, userId |-> hrec.user])>>))
       ELSE /\ UNCHANGED reactVars
            /\ Finish(h, hrec)
    /\ UNCHANGED reactFrame

NextReact ==
    \E h \in Slots :
        \/ SendMessage(h, SUPERUSER, "a", Null, {})
        \/ \E u \in Actors, m \in ReactTargets, e \in Emojis : ToggleFind(h, u, m, e)
        \/ ToggleDelete(h)
        \/ ToggleCreate(h)

----------------------------------------------------------------------------
(* edit_message and mark_mention_read *)

\* time passes
Wait(d, horizon) ==
    /\ now + d <= horizon
    /\ now' = now + d
    /\ UNCHANGED <<messages, nextMessageId, reactVars, mentionVars, readVars,
                   bookmarkVars, deviceVars, client, handlers, serial, last, prev>>

\* an edit_message that checks neither the author nor the age of the message
EditReadUnchecked(h, u, m, newContent) ==
    /\ CanStart(h)
    /\ Len(editHistory) < MaxEdits
    /\ LET req == Begin("edit", u, m, Sanitize(newContent)) IN
       IF ~Exists(m)
       THEN Finish(h, Emit(req, <<ErrorEv(h, "Unauthorized")>>))
       ELSE Continue(h, [req EXCEPT !.pc = "edit_tx", !.msg = messages[m]])
    /\ UNCHANGED <<messages, mentions, editHistory, mentionFrame>>

\* socket.on('edit_message'), first store call: findUnique, then the author
\* check and the 5 minute limit; both failures are reported to the socket
EditRead(h, u, m, newContent) ==
    /\ CanStart(h)
    /\ Len(editHistory) < MaxEdits
    /\ LET req == Begin("edit", u, m, Sanitize(newContent)) IN
       IF ~Exists(m) \/ messages[m].userId # u
       THEN Finish(h, Emit(req, <<ErrorEv(h, "Unauthorized")>>))
       ELSE IF now - messages[m].createdAt > EditWindow
       THEN Finish(h, Emit(req, <<ErrorEv(h, "Edit time limit exceeded (5 mins)")>>))
       ELSE Continue(h, [req EXCEPT !.pc = "edit_tx", !.msg = messages[m]])
    /\ UNCHANGED <<messages, mentions, editHistory, mentionFrame>>

\* a reset that clears isRead and keeps readAt
MentionResetKeepsReadAt(rows, m) ==
    [i \in DOMAIN rows |->
        IF rows[i].messageId = m THEN [rows[i] EXCEPT !.isRead = FALSE] ELSE rows[i]]

\* a reset of the mentions of every message
MentionResetAll(rows, m) ==
    [i \in DOMAIN rows |-> [rows[i] EXCEPT !.isRead = FALSE, !.readAt = Null]]

\* tx.mention.updateMany({where: {messageId}, data: {isRead: false, readAt: null}})
MentionReset(rows, m) ==
    [i \in DOMAIN rows |->
        IF rows[i].messageId = m
        THEN [rows[i] EXCEPT !.isRead = FALSE, !.readAt = Null]
        ELSE rows[i]]

\* second store call: the transaction (history row with the content that
\* findUnique read, mention reset, new content), then the broadcast; when
\* the message is gone the transaction rolls back and the error is
\* reported to the socket
EditCommit(h) ==
    /\ handlers[h].pc = "edit_tx"
    /\ LET hrec == handlers[h]
           m == hrec.messageId IN
       IF Exists(m)
       THEN /\ editHistory' = Append(editHistory,
                                     [messageId |-> m, oldContent |-> hrec.msg.content])
            /\ mentions' = MentionReset(mentions, m)
            /\ messages' = [messages EXCEPT ![m].content = hrec.arg]
            /\ Finish(h, Emit(hrec, <<Ev(General, "message_updated", m, hrec.arg)>>))
       ELSE /\ UNCHANGED <<messages, mentions, editHistory>>
            /\ Finish(h, Emit(hrec, <<ErrorEv(h, "Foreign key constraint failed")>>))
    /\ UNCHANGED mentionFrame

\* socket.on('mark_mention_read'): one update by mention id, then a notice
\* to the author of the message and one to the mentioned user; the update
\* of a row that does not exist throws, which is caught and logged
MarkMentionRead(h, u, id) ==
    /\ CanStart(h)
    /\ LET req == Begin("mark_mention_read", u, id, "none") IN
       IF id \in DOMAIN mentions
       THEN /\ mentions' = [mentions EXCEPT ![id].isRead = TRUE, ![id].readAt = now]
            /\ Finish(h, Emit(req,
                  <<Ev(UserRoom(messages[mentions[id].messageId].userId),
                       "mention_read_status", mentions[id].messageId,
                       [mentionId |-> id, readByUserId |-> mentions[id].userId,
                        readAt |-> now]),
                    Ev(UserRoom(mentions[id].userId), "my_mention_updated",
                       mentions[id].messageId,
                       [mentionId |-> id, isRead |-> TRUE, readAt |-> now])>>))
       ELSE /\ UNCHANGED mentions
            /\ Finish(h, req)
    /\ UNCHANGED <<messages, editHistory, mentionFrame>>

MentionIds == 1..(MaxMsgs * Cardinality(Actors) + 1)

NextMention ==
    \E h \in Slots :
        \/ \E us \in SUBSET Actors : SendMessage(h, SUPERUSER + 1, "a", Null, us)
        \/ \E u \in Actors, m \in TargetIds : EditRead(h, u, m, "b")
        \/ EditCommit(h)
        \/ \E u \in Actors, id \in MentionIds : MarkMentionRead(h, u, id)

\* edits by the author and by another user, before and after the
\* 5 minute limit, of messages whose mention may have been acknowledged
NextEdit ==
    \/ \E d \in {EditWindow, EditWindow + 1} : Wait(d, 1 + EditWindow + MaxNow)
    \/ \E h \in Slots :
        \/ SendMessage(h, SUPERUSER + 1, "a", Null, {SUPERUSER})
        \/ \E id \in MsgIds : MarkMentionRead(h, SUPERUSER, id)
        \/ \E u \in Actors, m \in MsgIds : EditRead(h, u, m, "b")
        \/ EditCommit(h)

----------------------------------------------------------------------------
(* The unread-mention count of a ChatRoom session *)

Max(a, b) == IF a >= b THEN a ELSE b

\* the session of user me has joined 'general' and `user_${me}`
Receives(me, ev) == ev.to = General \/ ev.to = UserRoom(me)

\* a session that ignores my_mention_updated
OnMyMentionUpdatedIgnored(count, payload) == count

\* on('my_mention_updated'): setUnreadMentionCount(prev => Math.max(0, prev - 1))
\* when the mention is read
OnMyMentionUpdated(count, payload) ==
    IF payload.isRead THEN Max(0, count - 1) ELSE count

\* on('new_message'): the count grows when the message mentions me
OnNewMessage(count, me, payload) ==
    IF \E i \in 1..Len(payload.mentions) : payload.mentions[i] = me
    THEN count + 1 ELSE count

\* the count of a session of user me after the events of a send_message or
\* a mark_mention_read request, delivered in the order of their emission
RECURSIVE UnreadAfter(_, _, _)
UnreadAfter(count, me, evs) ==
    IF evs = << >> THEN count
    ELSE LET ev == Head(evs)
             next == IF ~Receives(me, ev) THEN count
                     ELSE IF ev.ev = "new_message" THEN OnNewMessage(count, me, ev.arg)
                     ELSE IF ev.ev = "my_mention_updated"
                          THEN OnMyMentionUpdated(count, ev.arg)
                     ELSE count
         IN UnreadAfter(next, me, Tail(evs))

----------------------------------------------------------------------------
(* POST /api/bookmarks *)

BookmarksOf(rows, u, m) == {r \in rows : r.userId = u /\ r.messageId = m}

\* first store call: findUnique by (userId, messageId)
BookmarkFind(h, u, m) ==
    /\ CanStart(h)
    /\ nextBookmarkId <= MaxBookmarks
    /\ LET req == Begin("bookmark", u, m, "none")
           existing == BookmarksOf(bookmarks, u, m) IN
       IF existing # {}
       THEN Continue(h, [req EXCEPT !.pc = "bookmark_delete",
                                    !.msg = CHOOSE r \in existing : TRUE])
       ELSE Continue(h, [req EXCEPT !.pc = "bookmark_create"])
    /\ UNCHANGED <<bookmarkVars, bookmarkFrame>>

\* prisma.bookmark.delete({where: {id: existing.id}}); it throws when the
\* row is gone, and the request is answered with status 500
BookmarkDelete(h) ==
    /\ handlers[h].pc = "bookmark_delete"
    /\ LET hrec == handlers[h] IN
       IF hrec.msg \in bookmarks
       THEN /\ bookmarks' = bookmarks \ {hrec.msg}
            /\ Continue(h, [hrec EXCEPT !.pc = "bookmark_emit", !.arg = FALSE])
       ELSE /\ UNCHANGED bookmarks
            /\ Finish(h, Emit(hrec, <<ErrorEv(h, "Failed to toggle bookmark")>>))
    /\ UNCHANGED <<nextBookmarkId, bookmarkFrame>>

\* prisma.bookmark.create; it throws on Bookmark_messageId_fkey and on
\* Bookmark_userId_messageId_key
BookmarkCreate(h) ==
    /\ handlers[h].pc = "bookmark_create"
    /\ LET hrec == handlers[h] IN
       IF Exists(hrec.messageId)
          /\ BookmarksOf(bookmarks, hrec.user, hrec.messageId) = {}
       THEN /\ bookmarks' = bookmarks \cup {[id |-> nextBookmarkId, userId |-> hrec.user,
                                              messageId |-> hrec.messageId]}
            /\ nextBookmarkId' = nextBookmarkId + 1
            /\ Continue(h, [hrec EXCEPT !.pc = "bookmark_emit", !.arg = TRUE])
       ELSE /\ UNCHANGED bookmarkVars
            /\ Finish(h, Emit(hrec, <<ErrorEv(h, "Failed to toggle bookmark")>>))
    /\ UNCHANGED bookmarkFrame

\* findUnique of the message, then bookmark_updated to the user's room
BookmarkEmit(h) ==
    /\ handlers[h].pc = "bookmark_emit"
    /\ LET hrec == handlers[h] IN
       Finish(h, Emit(hrec, <<Ev(UserRoom(hrec.user), "bookmark_updated",
                                 hrec.messageId, hrec.arg)>>))
    /\ UNCHANGED <<bookmarkVars, bookmarkFrame>>

----------------------------------------------------------------------------
(* mark_read and the read-receipt flush *)

ReadsOf(rows, u, m) == {r \in rows : r.userId = u /\ r.messageId = m}

\* an upsert that always creates
UpsertAlwaysCreates(rows, id, u, m) ==
    rows \cup {[id |-> id, userId |-> u, messageId |-> m]}

\* prisma.messageRead.upsert({where: {userId_messageId}, update: {}, create})
MessageReadUpsert(rows, id, u, m) ==
    IF ReadsOf(rows, u, m) # {}
    THEN rows
    ELSE rows \cup {[id |-> id, userId |-> u, messageId |-> m]}

\* the buffer is a sequence of entries [messageId, userIds], the keys of the
\* Map in insertion order; userIds is the Set in insertion order
BufferHas(buf, m) == \E i \in 1..Len(buf) : buf[i].messageId = m

BufferIndex(buf, m) == CHOOSE i \in 1..Len(buf) : buf[i].messageId = m

\* Set.add: a user id that is in the set is not added again
SetAdd(users, u) ==
    IF \E i \in 1..Len(users) : users[i] = u THEN users ELSE Append(users, u)

\* if (!has(messageId)) set(messageId, new Set()); get(messageId).add(userId)
BufferAdd(buf, m, u) ==
    LET b == IF BufferHas(buf, m) THEN buf
             ELSE Append(buf, [messageId |-> m, userIds |-> <<>>])
        i == BufferIndex(b, m)
    IN [b EXCEPT ![i].userIds = SetAdd(b[i].userIds, u)]

\* the pair (m, u) is in the buffer
Buffered(buf, m, u) ==
    \E i \in 1..Len(buf) :
        /\ buf[i].messageId = m
        /\ \E j \in 1..Len(buf[i].userIds) : buf[i].userIds[j] = u

\* history: the insertions of one (message, user) pair, counted by what
\* became of them:
\*   held  in the buffer, in no event yet
\*   kept  in the buffer, in one event
\*   once  out of the buffer, in exactly one event
\*   bad   passed over or dropped by a flush, or in two events
NoReceipts == [held |-> 0, kept |-> 0, once |-> 0, bad |-> 0]

Inserted(rec) == rec.held + rec.kept + rec.once + rec.bad

RECURSIVE SumOver(_, _)
SumOver(f, S) ==
    IF S = {} THEN 0
    ELSE LET x == CHOOSE y \in S : TRUE IN Inserted(f[x]) + SumOver(f, S \ {x})

\* socket.on('mark_read'), the store call: the upsert; for a message that
\* does not exist it violates MessageRead_messageId_fkey and throws, and
\* the empty catch ends the handler
MarkReadUpsert(h, u, m) ==
    /\ CanStart(h)
    /\ SumOver(receipts, ReadPairs) < MaxReads
    /\ LET req == Begin("mark_read", u, m, "none") IN
       IF Exists(m)
       THEN /\ messageReads' = MessageReadUpsert(messageReads, nextReadId, u, m)
            /\ nextReadId' = IF messageReads' = messageReads
                             THEN nextReadId ELSE nextReadId + 1
            /\ Continue(h, [req EXCEPT !.pc = "mark_read_buffer"])
       ELSE /\ UNCHANGED <<messageReads, nextReadId>>
            /\ Finish(h, req)
    /\ UNCHANGED <<readReceiptBuffer, batches, receipts, readFrame>>

\* after the await: the insertion into the buffer
MarkReadBuffer(h) ==
    /\ handlers[h].pc = "mark_read_buffer"
    /\ LET hrec == handlers[h] IN
       /\ readReceiptBuffer' = BufferAdd(readReceiptBuffer, hrec.messageId, hrec.user)
       /\ receipts' = [receipts EXCEPT ![<<hrec.messageId, hrec.user>>].held = @ + 1]
       /\ Finish(h, hrec)
    /\ UNCHANGED <<messageReads, nextReadId, batches, readFrame>>

\* a flush that sends the event of the first key only
FlushEventsFirst(buf) ==
    [i \in 1..1 |->
        Ev(General, "message_read_update_batch", buf[i].messageId, buf[i].userIds)]

\* readReceiptBuffer.forEach: one event per key, with Array.from(userIds)
FlushEvents(buf) ==
    [i \in 1..Len(buf) |->
        Ev(General, "message_read_update_batch", buf[i].messageId, buf[i].userIds)]

\* a flush that leaves the buffer as it is
BufferKept(buf) == buf

\* readReceiptBuffer.clear()
BufferClear(buf) == << >>

\* the number of events of evs that carry the pair (m, u)
Carrying(evs, m, u) ==
    Cardinality({i \in 1..Len(evs) :
        /\ evs[i].messageId = m
        /\ \E j \in 1..Len(evs[i].arg) : evs[i].arg[j] = u})

\* history: the insertions of a pair after a flush whose events carry the
\* pair c times and that leaves the pair in the buffer or not (stay)
Flushed(rec, c, stay) ==
    LET heldGood == c = 1
        keptGood == c = 0 IN
    [held |-> 0,
     kept |-> (IF heldGood /\ stay THEN rec.held ELSE 0)
              + (IF keptGood /\ stay THEN rec.kept ELSE 0),
     once |-> rec.once + (IF heldGood /\ ~stay THEN rec.held ELSE 0)
                       + (IF keptGood /\ ~stay THEN rec.kept ELSE 0),
     bad  |-> rec.bad + (IF heldGood THEN 0 ELSE rec.held)
                      + (IF keptGood THEN 0 ELSE rec.kept)]

\* the setInterval callback: it runs to its end without an await, so no
\* handler runs between its emits and its clear
Flush ==
    LET evs == FlushEvents(readReceiptBuffer)
        after == BufferClear(readReceiptBuffer) IN
    /\ IF Len(readReceiptBuffer) = 0
       THEN UNCHANGED <<batches, readReceiptBuffer, receipts>>
       ELSE /\ batches' = evs
            /\ readReceiptBuffer' = after
            /\ receipts' = [p \in ReadPairs |->
                               Flushed(receipts[p], Carrying(evs, p[1], p[2]),
                                       Buffered(after, p[1], p[2]))]
    /\ UNCHANGED <<messageReads, nextReadId, client, handlers, last, prev, readFrame>>

NextRead ==
    \/ Flush
    \/ \E h \in Slots :
        \/ SendMessage(h, SUPERUSER, "a", Null, {})
        \/ \E p \in ReadPairs : MarkReadUpsert(h, p[2], p[1])
        \/ MarkReadBuffer(h)

----------------------------------------------------------------------------
(* GET /api/messages/:id/thread *)

MAX_DEPTH == 50

ThreadIds == 1..(MaxThread + 1)

\* a row as a query with include: {parent: ...} returns it
Fetched(msgs, i) ==
    [id |-> i, row |-> msgs[i], parent |-> RowOf(msgs, msgs[i].parentId)]

\* a stable sort of rows by createdAt: Array.prototype.sort with the
\* comparator new Date(a.createdAt) - new Date(b.createdAt)
RECURSIVE SortByCreatedAt(_)
SortByCreatedAt(rows) ==
    IF Len(rows) <= 1 THEN rows
    ELSE LET front == SortByCreatedAt(SubSeq(rows, 1, Len(rows) - 1))
             x == rows[Len(rows)]
             before == SelectSeq(front, LAMBDA r : r.row.createdAt <= x.row.createdAt)
             after == SelectSeq(front, LAMBDA r : r.row.createdAt > x.row.createdAt)
         IN before \o <<x>> \o after

RECURSIVE FetchAll(_, _)
FetchAll(msgs, ids) ==
    IF ids = << >> THEN << >>
    ELSE <<Fetched(msgs, Head(ids))>> \o FetchAll(msgs, Tail(ids))

\* a findMany that passes over the deleted rows
FindRepliesLive(msgs, queue) ==
    LET ids == {i \in DOMAIN msgs : /\ ~msgs[i].isDeleted
                                    /\ \E j \in 1..Len(queue) : msgs[i].parentId = queue[j]}
    IN SortByCreatedAt(FetchAll(msgs, SetToSeq(ids)))

\* prisma.message.findMany({where: {parentId: {in: queue}},
\* orderBy: {createdAt: 'asc'}}): the table is read in id order, rows of
\* one createdAt keep that order
FindReplies(msgs, queue) ==
    LET ids == {i \in DOMAIN msgs : \E j \in 1..Len(queue) : msgs[i].parentId = queue[j]}
    IN SortByCreatedAt(FetchAll(msgs, SetToSeq(ids)))

\* the replies of the call before this one
RepliesOfLastCall ==
    IF last.op = "thread" /\ last.out[1].ev = "thread"
    THEN last.out[1].arg.replies ELSE << >>

\* let allReplies = []
NoReplies == << >>

\* res.json({ root: rootMessage, replies: allReplies })
ThreadResponse(h, root, replies) ==
    Ev(SocketOf(h), "thread", root.id, [root |-> root, replies |-> replies])

\* a walk down that starts at the message of the request
ThreadDescendFromStart(hrec, root) ==
    [hrec EXCEPT !.pc = "thread_down",
                 !.msg = [id |-> root.id, root |-> root, replies |-> NoReplies,
                          queue |-> <<hrec.messageId>>, depth |-> 0]]

\* the walk up is over at root: the walk down starts with queue = [root.id]
\* and depth = 0
ThreadDescend(hrec, root) ==
    [hrec EXCEPT !.pc = "thread_down",
                 !.msg = [id |-> root.id, root |-> root, replies |-> NoReplies,
                          queue |-> <<root.id>>, depth |-> 0]]

\* a walk up that ends at the first message fetched
ThreadAscendNever(hrec, root, fetches) == ThreadDescend(hrec, root)

\* while (rootMessage.parentId): another findUnique is due, or the walk
\* down starts; fetches is the number of findUnique calls made so far, kept
\* modulo 2, which tells one round of the loop from the next
ThreadAscend(hrec, root, fetches) ==
    IF root.row.parentId # Null
    THEN [hrec EXCEPT !.pc = "thread_up",
                      !.msg = [id |-> root.id, root |-> root, fetches |-> fetches % 2]]
    ELSE ThreadDescend(hrec, root)

\* the handler, first store call: findUnique of the message named; 404 when
\* there is none
ThreadFind(h, u, startId) ==
    /\ CanStart(h)
    /\ LET req == Begin("thread", u, startId, "none") IN
       IF Exists(startId)
       THEN Continue(h, ThreadAscend(req, Fetched(messages, startId), 1))
       ELSE Finish(h, Emit(req, <<ErrorEv(h, "Message not found")>>))
    /\ UNCHANGED <<messages, nextMessageId, msgFrame>>

\* findUnique of the parent; the walk up ends when the parent row is gone
ThreadUp(h) ==
    /\ handlers[h].pc = "thread_up"
    /\ LET hrec == handlers[h]
           parentId == hrec.msg.root.row.parentId IN
       IF Exists(parentId)
       THEN Continue(h, ThreadAscend(hrec, Fetched(messages, parentId),
                                     hrec.msg.fetches + 1))
       ELSE Continue(h, ThreadDescend(hrec, hrec.msg.root))
    /\ UNCHANGED <<messages, nextMessageId, msgFrame>>

\* one round of the walk down: findMany of the rows whose parent is in the
\* queue; an empty batch or MAX_DEPTH rounds end the walk, and the replies
\* are sorted and sent
ThreadDown(h) ==
    /\ handlers[h].pc = "thread_down"
    /\ LET hrec == handlers[h]
           cur == hrec.msg
           batch == FindReplies(messages, cur.queue)
           allReplies == cur.replies \o batch
           depth == cur.depth + 1 IN
       IF batch # << >> /\ depth < MAX_DEPTH
       THEN Continue(h, [hrec EXCEPT !.msg = [cur EXCEPT
                            !.replies = allReplies,
                            !.queue = [i \in 1..Len(batch) |-> batch[i].id],
                            !.depth = depth]])
       ELSE Finish(h, Emit(hrec, <<ThreadResponse(h, cur.root,
                                      SortByCreatedAt(allReplies))>>))
    /\ UNCHANGED <<messages, nextMessageId, msgFrame>>

NextThread ==
    \/ Wait(1, 1 + MaxNow)
    \/ \E h \in Slots :
        \/ \E parent \in {Null} \cup (1..MaxThread) : SendReply(h, SUPERUSER, parent)
        \/ \E startId \in ThreadIds : ThreadFind(h, SUPERUSER, startId)
        \/ ThreadUp(h)
        \/ ThreadDown(h)

----------------------------------------------------------------------------
(* Connections and the Device table *)

SocketIds == 1..MaxSockets

\* the states of a connection:
\*   none      not connected yet
\*   creating  connected; the connection handler awaits device.create
\*   open      connected; the handlers of the socket are registered
\*   dropped   disconnected while the connection handler awaited
\*   deleting  disconnected; the disconnect handler awaits device.deleteMany
\*   closed    disconnected, no handler in flight
NoSocket == [user |-> 0, status |-> "none"]

\* the socket is in io.sockets.sockets
Live(s) == sockets[s].status \in {"creating", "open"}

\* no connection handler and no disconnect handler is in flight
Settled == \A s \in SocketIds : sockets[s].status \in {"none", "open", "closed"}

\* the record kept of a step of the handlers of socket s
SocketRecord(name, s, evs) ==
    [op |-> name, user |-> sockets[s].user, messageId |-> s, arg |-> "none",
     out |-> evs, pre |-> Snapshot, socket |-> Session(s)]

\* history of a step of the handlers of a socket
SocketStep(name, s, evs) ==
    IF serial
    THEN last' = SocketRecord(name, s, evs) /\ prev' = NoRequest
    ELSE UNCHANGED <<last, prev>>

UserStatus(u, status) == Ev(General, "user_status", 0, [userId |-> u, status |-> status])

\* io.on('connection'), up to the await of device.create: the socket joins
\* its rooms; socket ids are handed out in order
Connect(s, u) ==
    /\ serial => AllIdle
    /\ sockets[s].status = "none"
    /\ \A k \in 1..(s - 1) : sockets[k].status # "none"
    /\ sockets' = [sockets EXCEPT ![s] = [user |-> u, status |-> "creating"]]
    /\ SocketStep("connect", s, << >>)
    /\ UNCHANGED <<devices, nextDeviceId, client, handlers, deviceFrame>>

\* prisma.device.create
DeviceCreate(rows, id, s) ==
    rows \cup {[id |-> id, userId |-> sockets[s].user, socketId |-> s]}

\* the connection handler after the await: the row is there, user_status
\* online is broadcast and the handlers of the socket, the disconnect
\* handler among them, are registered; for a socket that has disconnected
\* by now the disconnect handler will never run
Register(s) ==
    /\ serial => AllIdle
    /\ sockets[s].status \in {"creating", "dropped"}
    /\ devices' = DeviceCreate(devices, nextDeviceId, s)
    /\ nextDeviceId' = IF devices' = devices THEN nextDeviceId ELSE nextDeviceId + 1
    /\ sockets' = [sockets EXCEPT ![s].status =
                      IF @ = "creating" THEN "open" ELSE "closed"]
    /\ SocketStep("register", s, <<UserStatus(sockets[s].user, "online")>>)
    /\ UNCHANGED <<client, handlers, deviceFrame>>

\* the status of a socket after its disconnect: the disconnect handler
\* starts when it is registered
Disconnected(status) == IF status = "open" THEN "deleting" ELSE "dropped"

\* the connection ends (by the client or the transport)
Disconnect(s) ==
    /\ serial => AllIdle
    /\ Live(s)
    /\ sockets' = [sockets EXCEPT ![s].status = Disconnected(@)]
    /\ SocketStep("disconnect", s, << >>)
    /\ UNCHANGED <<devices, nextDeviceId, client, handlers, deviceFrame>>

\* socket.on('disconnect') after the await: device.deleteMany by socketId,
\* then user_status offline
Unregister(s) ==
    /\ serial => AllIdle
    /\ sockets[s].status = "deleting"
    /\ devices' = {d \in devices : d.socketId # s}
    /\ sockets' = [sockets EXCEPT ![s].status = "closed"]
    /\ SocketStep("unregister", s, <<UserStatus(sockets[s].user, "offline")>>)
    /\ UNCHANGED <<nextDeviceId, client, handlers, deviceFrame>>

DeviceIds == 1..(MaxSockets + 1)

DeviceRows(rows, id) == {d \in rows : d.id = id}

\* POST /api/devices/revoke, first store call: findUnique and the owner
\* check; status 403 is the answer to the request
RevokeFind(h, u, deviceId) ==
    /\ CanStart(h)
    /\ LET req == Begin("revoke", u, deviceId, "none")
           found == DeviceRows(devices, deviceId) IN
       IF found = {} \/ (\E d \in found : d.userId # u)
       THEN Finish(h, Emit(req, <<ErrorEv(h, "Unauthorized")>>))
       ELSE Continue(h, [req EXCEPT !.pc = "revoke_delete",
                                    !.msg = CHOOSE d \in found : TRUE])
    /\ UNCHANGED <<deviceVars, deviceFrame>>

\* a revocation that tells every session
ForceLogoutAll(s) == Ev(General, "force_logout", 0, "Device revoked by user")

\* targetSocket.emit('force_logout', ...)
ForceLogout(s) == Ev(Session(s), "force_logout", 0, "Device revoked by user")

\* second store call: device.delete, which throws when the row is gone
\* (status 500); then force_logout to the socket of the row when it is
\* connected, and its disconnect
RevokeDelete(h) ==
    /\ handlers[h].pc = "revoke_delete"
    /\ LET hrec == handlers[h]
           s == hrec.msg.socketId IN
       IF hrec.msg \in devices
       THEN /\ devices' = devices \ {hrec.msg}
            /\ IF Live(s)
               THEN /\ sockets' = [sockets EXCEPT ![s].status = Disconnected(@)]
                    /\ Finish(h, Emit(hrec, <<ForceLogout(s)>>))
               ELSE /\ UNCHANGED sockets
                    /\ Finish(h, hrec)
       ELSE /\ UNCHANGED <<devices, sockets>>
            /\ Finish(h, Emit(hrec, <<ErrorEv(h, "Revoke failed")>>))
    /\ UNCHANGED <<nextDeviceId, deviceFrame>>

\* connections, disconnections and device revocations
NextDevice ==
    \/ \E s \in SocketIds :
        \/ \E u \in Actors : Connect(s, u)
        \/ Register(s)
        \/ Disconnect(s)
        \/ Unregister(s)
    \/ \E h \in Slots :
        \/ \E u \in Actors, deviceId \in DeviceIds : RevokeFind(h, u, deviceId)
        \/ RevokeDelete(h)

----------------------------------------------------------------------------
(* The expiry sweep *)

\* the expiresAt values of the requests: none, and the first two minutes
ExpiryTimes == {Null, 1, 2}

\* a sweep that also takes the messages that expire at the sweep time
ExpiredOrDue(row, t) == row.expiresAt # Null /\ row.expiresAt <= t

\* where: {expiresAt: {lt: new Date()}}
Expired(row, t) == row.expiresAt # Null /\ row.expiresAt < t

\* the rows of a table (a set of rows) whose message is not in gone:
\* ON DELETE CASCADE
Cascade(rows, gone) == {r \in rows : r.messageId \notin gone}

\* the Message table after the delete of the rows in gone: the parentId of
\* a remaining reply to one of them is null (ON DELETE SET NULL)
DeleteMany(msgs, gone) ==
    [i \in DOMAIN msgs \ gone |->
        IF msgs[i].parentId \in gone THEN [msgs[i] EXCEPT !.parentId = Null]
        ELSE msgs[i]]

\* the record kept of a sweep
SweepRecord(evs) ==
    [op |-> "sweep", user |-> 0, messageId |-> 0, arg |-> "none", out |-> evs,
     pre |-> Snapshot, socket |-> SocketOf(0)]

\* the cron callback: one deleteMany, then messages_expired when rows were
\* deleted
SweepRun ==
    LET gone == {i \in DOMAIN messages : Expired(messages[i], now)} IN
    /\ messages' = DeleteMany(messages, gone)
    /\ reactions' = Cascade(reactions, gone)
    /\ mentions' = [i \in {j \in DOMAIN mentions : mentions[j].messageId \notin gone}
                       |-> mentions[i]]
    /\ editHistory' = SelectSeq(editHistory, LAMBDA r : r.messageId \notin gone)
    /\ messageReads' = Cascade(messageReads, gone)
    /\ bookmarks' = Cascade(bookmarks, gone)
    /\ IF serial
       THEN /\ last' = SweepRecord(IF gone # {}
                                   THEN <<Ev(General, "messages_expired", 0, "none")>>
                                   ELSE << >>)
            /\ prev' = NoRequest
       ELSE UNCHANGED <<last, prev>>
    /\ UNCHANGED <<nextMessageId, nextReactionId, nextMentionId, nextReadId,
                   readReceiptBuffer, batches, receipts, nextBookmarkId, now,
                   deviceVars, client, handlers, serial>>

\* cron.schedule('* * * * *'): the callback runs between two requests
Sweep == (serial => AllIdle) /\ SweepRun

\* the callback runs while a request awaits a store call
SweepOverlapping == ~AllIdle /\ SweepRun

\* a message sent with expiresAt while the table holds fewer than MaxMsgs
\* messages
SendExpiring(h, u, replyToId, mentionUserIds, expiresAt) ==
    /\ nextMessageId <= MaxMsgs
    /\ SendHandler(h, u, "a", replyToId, mentionUserIds, expiresAt)

\* messages with and without expiresAt that mention their author, replies
\* to the first message, the clock and the sweep
NextExpiry ==
    \/ Wait(1, 1 + MaxNow)
    \/ Sweep
    \/ \E h \in Slots :
        \/ \E parent \in {Null, 1}, e \in ExpiryTimes :
               SendExpiring(h, SUPERUSER, parent, {SUPERUSER}, e)

\* messages that expire in the first minute or never, replies to the first
\* message, thread resolutions, the clock, and the sweep between two
\* store calls of a resolution
NextThreadSweep ==
    \/ Wait(1, 1 + MaxNow)
    \/ SweepOverlapping
    \/ \E h \in Slots :
        \/ \E parent \in {Null, 1}, e \in {Null, 1} :
               SendExpiring(h, SUPERUSER, parent, {}, e)
        \/ \E startId \in TargetIds : ThreadFind(h, SUPERUSER, startId)
        \/ ThreadUp(h)
        \/ ThreadDown(h)

\* replies, the delete of the second message, thread resolutions and the
\* clock
NextThreadDelete ==
    \/ Wait(1, 1 + MaxNow)
    \/ \E h \in Slots :
        \/ \E parent \in {Null} \cup (1..MaxThread) : SendReply(h, SUPERUSER, parent)
        \/ DeleteRead(h, SUPERUSER, 2)
        \/ DeleteUpdate(h)
        \/ \E startId \in ThreadIds : ThreadFind(h, SUPERUSER, startId)
        \/ ThreadUp(h)
        \/ ThreadDown(h)

----------------------------------------------------------------------------
(* The message list of a ChatRoom session *)

\* the list after the initial load: the rows that are not deleted, each
\* with its parent embedded
LoadedList(msgs) ==
    FetchAll(msgs, SetToSeq({i \in DOMAIN msgs : ~msgs[i].isDeleted}))

\* on('message_deleted'): the message leaves the list, and every entry
\* that replies to it gets parent.isDeleted = true
OnMessageDeleted(list, messageId) ==
    LET filtered == SelectSeq(list, LAMBDA e : e.id # messageId) IN
    [i \in 1..Len(filtered) |->
        IF IsRow(filtered[i].parent) /\ filtered[i].row.parentId = messageId
        THEN [filtered[i] EXCEPT !.parent.isDeleted = TRUE]
        ELSE filtered[i]]

\* thread resolutions only
NextResolve ==
    \E h \in Slots :
        \/ \E startId \in ThreadIds : ThreadFind(h, SUPERUSER, startId)
        \/ ThreadUp(h)
        \/ ThreadDown(h)

----------------------------------------------------------------------------
(* Every operation on the first messages *)

\* the first reaction toggle, the first read receipt and the first bookmark
\* toggle, all of message 1 and by the superuser
FirstToggle(h) == nextReactionId = 1 /\ ToggleFind(h, SUPERUSER, 1, "+1")
FirstMarkRead(h) == nextReadId = 1 /\ MarkReadUpsert(h, SUPERUSER, 1)
FirstBookmark(h) == nextBookmarkId = 1 /\ BookmarkFind(h, SUPERUSER, 1)

\* one author who mentions the superuser in every message, edits and
\* acknowledgements of every message, and every other operation on
\* message 1
NextEngine ==
    \/ Flush
    \/ \E h \in Slots :
        \/ SendMessage(h, SUPERUSER + 1, "a", Null, {SUPERUSER})
        \/ \E m \in MsgIds : EditRead(h, SUPERUSER + 1, m, "b")
        \/ EditCommit(h)
        \/ \E id \in MsgIds : MarkMentionRead(h, SUPERUSER, id)
        \/ DeleteRead(h, SUPERUSER + 1, 1)
        \/ DeleteUpdate(h)
        \/ RestoreRead(h, SUPERUSER + 1, 1)
        \/ RestoreUpdate(h)
        \/ PinClear(h, 1)
        \/ PinSet(h)
        \/ FirstToggle(h)
        \/ ToggleCreate(h)
        \/ FirstMarkRead(h)
        \/ MarkReadBuffer(h)
        \/ FirstBookmark(h)
        \/ BookmarkCreate(h)
        \/ BookmarkEmit(h)

----------------------------------------------------------------------------
(* Requests that may fail *)

\* requests of either user on message 1 and on an id without a message,
\* before and after the 5 minute limit
NextGuard ==
    \/ Wait(EditWindow + 1, 1 + EditWindow + MaxNow)
    \/ \E h \in Slots :
        \/ \E u \in Actors, parent \in {Null, MaxMsgs + 1} :
               SendMessage(h, u, "a", parent, {})
        \/ \E u \in Actors, m \in ReactTargets : EditRead(h, u, m, "b")
        \/ EditCommit(h)
        \/ \E u \in Actors, m \in ReactTargets : DeleteRead(h, u, m)
        \/ DeleteUpdate(h)
        \/ \E u \in Actors, m \in ReactTargets : RestoreRead(h, u, m)
        \/ RestoreUpdate(h)
        \/ \E m \in ReactTargets : PinClear(h, m)
        \/ PinSet(h)
        \/ ToggleFind(h, SUPERUSER, MaxMsgs + 1, "+1")
        \/ ToggleCreate(h)
        \/ MarkReadUpsert(h, SUPERUSER, MaxMsgs + 1)
        \/ BookmarkFind(h, SUPERUSER, MaxMsgs + 1)
        \/ BookmarkCreate(h)

----------------------------------------------------------------------------
(* The pin coordinator: send, pin, unpin, delete, restore *)

\* the state at server start over a Message table, with or without a
\* ChatRoom session
InitWith(ser, table, cl) ==
    /\ serial = ser
    /\ client = cl
    /\ messages = table
    /\ nextMessageId = Len(table) + 1
    /\ reactions = {}
    /\ mentions = << >>
    /\ nextMentionId = 1
    /\ editHistory = << >>
    /\ messageReads = {}
    /\ nextReadId = 1
    /\ readReceiptBuffer = << >>
    /\ batches = << >>
    /\ receipts = [p \in ReadPairs |-> NoReceipts]
    /\ bookmarks = {}
    /\ nextBookmarkId = 1
    /\ devices = {}
    /\ nextDeviceId = 1
    /\ sockets = [s \in SocketIds |-> NoSocket]
    /\ nextReactionId = 1
    /\ now = 1
    /\ handlers = [h \in Slots |-> Idle]
    /\ last = NoRequest
    /\ prev = NoRequest

\* server start over a Message table, no ChatRoom session
InitTable(ser, table) == InitWith(ser, table, NoClient)

\* server start over an empty database
InitStore(ser) == InitTable(ser, << >>)

\* a Message row of the database file the server is started on
StoredMessage(parentId) ==
    [userId |-> SUPERUSER, content |-> "a", parentId |-> parentId,
     createdAt |-> 1, isDeleted |-> FALSE, isPinned |-> FALSE,
     wasPinned |-> FALSE, expiresAt |-> Null, linkMetadata |-> "null"]

\* every content of the Message table that Message_parentId_fkey admits:
\* each parentId is null or the id of a row, cycles included
AnyTables ==
    UNION {[1..n -> {StoredMessage(p) : p \in 0..n}] : n \in 1..MaxThread}

\* server start over any Message table
InitAnyTable == \E table \in AnyTables : InitTable(TRUE, table)

\* requests may overlap
InitConcurrent == InitStore(FALSE)

\* each request runs to completion before the next starts
InitSerial == InitStore(TRUE)

\* the same, with a ChatRoom session that receives every broadcast
InitClientSerial == InitWith(TRUE, << >>, LoadedClient)

\* requests may overlap, and a ChatRoom session receives every broadcast
InitClientConcurrent == InitWith(FALSE, << >>, LoadedClient)

NextPin ==
    \E h \in Slots :
        \/ \E u \in Actors : SendMessage(h, u, "a", Null, {})
        \/ \E m \in TargetIds : PinClear(h, m)
        \/ PinSet(h)
        \/ \E m \in TargetIds : Unpin(h, m)
        \/ \E u \in Users, m \in TargetIds : DeleteRead(h, u, m)
        \/ DeleteUpdate(h)
        \/ \E u \in Users, m \in TargetIds : RestoreRead(h, u, m)
        \/ RestoreUpdate(h)

\* pin and unpin requests only
NextPinOnly ==
    \E h \in Slots :
        \/ \E u \in Actors : SendMessage(h, u, "a", Null, {})
        \/ \E m \in TargetIds : PinClear(h, m)
        \/ PinSet(h)
        \/ \E m \in TargetIds : Unpin(h, m)

\* pin and unpin requests on message 1, its delete by the author or the
\* superuser and its restore by the author
NextPinRace ==
    \E h \in Slots :
        \/ SendMessage(h, SUPERUSER + 1, "a", Null, {})
        \/ PinClear(h, 1)
        \/ PinSet(h)
        \/ Unpin(h, 1)
        \/ \E u \in Actors : DeleteRead(h, u, 1)
        \/ DeleteUpdate(h)
        \/ RestoreRead(h, SUPERUSER + 1, 1)
        \/ RestoreUpdate(h)

\* edit, delete and restore requests of the author on message 1; every
\* message is created with content "a" and every edit writes "b"
NextMessageRace ==
    \E h \in Slots :
        \/ SendMessage(h, SUPERUSER + 1, "a", Null, {})
        \/ EditRead(h, SUPERUSER + 1, 1, "b")
        \/ EditCommit(h)
        \/ DeleteRead(h, SUPERUSER + 1, 1)
        \/ DeleteUpdate(h)
        \/ RestoreRead(h, SUPERUSER + 1, 1)
        \/ RestoreUpdate(h)

\* concurrent edit, delete and restore requests on one message
SpecMessageRace == InitConcurrent /\ [][NextMessageRace]_vars

\* pin_message requests that name a message of the table
PinClearExisting(h, m) == Exists(m) /\ PinClear(h, m)
UnpinExisting(h, m) == Exists(m) /\ Unpin(h, m)

\* pin and unpin requests that name a message of the table, deletes and
\* restores of messages by their author
NextPinClient ==
    \E h \in Slots :
        \/ SendMessage(h, SUPERUSER, "a", Null, {})
        \/ \E m \in MsgIds : PinClearExisting(h, m)
        \/ PinSet(h)
        \/ \E m \in MsgIds : UnpinExisting(h, m)
        \/ \E m \in MsgIds : DeleteRead(h, SUPERUSER, m)
        \/ DeleteUpdate(h)
        \/ \E m \in MsgIds : RestoreRead(h, SUPERUSER, m)
        \/ RestoreUpdate(h)

\* pin, unpin, delete and restore requests, one after the other, and a
\* session that has received the events of each before the next starts
SpecPinClient == InitClientSerial /\ [][NextPinClient]_vars

\* concurrent delete, restore and pin requests on one message
SpecPinRace == InitConcurrent /\ [][NextPinRace]_vars

\* concurrent pin and unpin requests
SpecPinOnly == InitConcurrent /\ [][NextPinOnly]_vars

\* concurrent reaction toggles
SpecReact == InitConcurrent /\ [][NextReact]_vars

\* reaction toggles run one after the other
SpecReactSerial == InitSerial /\ [][NextReact]_vars

\* concurrent edits and mention acknowledgements
SpecMention == InitConcurrent /\ [][NextMention]_vars

\* edits and mention acknowledgements run one after the other
SpecMentionSerial == InitSerial /\ [][NextMention]_vars

\* mark_read requests from many sessions and the flush timer
SpecRead == InitConcurrent /\ [][NextRead]_vars

\* edits around the 5 minute limit, one request after the other
SpecEditSerial == InitSerial /\ [][NextEdit]_vars

\* requests that may fail, one after the other
SpecGuardSerial == InitSerial /\ [][NextGuard]_vars

\* every operation, requests overlapping
SpecEngine == InitConcurrent /\ [][NextEngine]_vars

\* every operation, one request after the other
SpecEngineSerial == InitSerial /\ [][NextEngine]_vars

\* replies and thread resolutions run one after the other
SpecThread == InitSerial /\ [][NextThread]_vars

\* connections and revocations, their handlers overlapping
SpecDevice == InitConcurrent /\ [][NextDevice]_vars

\* connections and revocations, one step of a handler after the other and
\* no step while a revocation is in flight
SpecDeviceSerial == InitSerial /\ [][NextDevice]_vars

\* expiring messages and the sweep, one request after the other
SpecExpirySerial == InitSerial /\ [][NextExpiry]_vars

\* thread resolutions one after the other, the sweep at any time
SpecThreadSweep == InitSerial /\ [][NextThreadSweep]_vars

\* replies, deletes and thread resolutions run one after the other
SpecThreadDelete == InitSerial /\ [][NextThreadDelete]_vars

\* thread resolutions over any Message table; every awaited store call of
\* the endpoint returns
SpecResolveFair ==
    /\ InitAnyTable
    /\ [][NextResolve]_vars
    /\ \A h \in Slots : WF_vars(ThreadUp(h)) /\ WF_vars(ThreadDown(h))

\* the same, where the timer keeps firing and a handler that was resumed
\* after its upsert runs on
SpecReadFair ==
    /\ InitConcurrent
    /\ [][NextRead]_vars
    /\ WF_vars(Flush)
    /\ \A h \in Slots : WF_vars(MarkReadBuffer(h))

\* concurrent requests
SpecPin == InitConcurrent /\ [][NextPin]_vars

\* each request runs to completion before the next starts
SpecPinSerial == InitSerial /\ [][NextPin]_vars

----------------------------------------------------------------------------
(* Properties of the pin coordinator *)

Range(seq) == {seq[i] : i \in 1..Len(seq)}

\* the request was a delete of an existing message by its author or the superuser
AuthorizedDelete(rec, row) ==
    /\ rec.op = "delete"
    /\ IsRow(row)
    /\ (row.userId = rec.user \/ rec.user = SUPERUSER)

\* the request was a restore of an existing message by its author
AuthorRestore(rec, row) ==
    /\ rec.op = "restore"
    /\ IsRow(row)
    /\ row.userId = rec.user

\* C1: at most one message is pinned in every reachable state, also while
\* pin_message(isPinned = true) requests for different messages are in flight
\* and their store calls interleave.
C1_AtMostOnePinned == Cardinality(Pinned) <= 1

\* C2: after any sequence of pin, unpin, delete and restore requests, each
\* run to completion before the next starts, at most one message is pinned.
C2_SerialAtMostOnePinned == (serial /\ AllIdle) => Cardinality(Pinned) <= 1

\* the last request was pin_message(m, true) for an existing message m
PinnedLast(m) ==
    /\ serial /\ AllIdle
    /\ last.op = "pin" /\ last.messageId = m /\ last.arg = TRUE
    /\ m \in DOMAIN last.pre.messages

\* C3: when M1 is pinned (by an earlier pin_message(M1, true)) and then
\* pin_message(M2, true) completes for another existing message M2, M1 is
\* no longer pinned, M2 is pinned, and message_pinned {M2, true} was
\* broadcast to the shared channel.
C3_SecondPinReplacesFirst ==
    \A m1, m2 \in MsgIds :
        (/\ PinnedLast(m2)
         /\ m1 # m2
         /\ m1 \in DOMAIN last.pre.messages
         /\ last.pre.messages[m1].isPinned)
        => /\ ~messages[m1].isPinned
           /\ messages[m2].isPinned
           /\ Ev(General, "message_pinned", m2, TRUE) \in Range(last.out)

C3_Witness ==
    \E m1, m2 \in MsgIds :
        /\ PinnedLast(m2)
        /\ m1 # m2
        /\ m1 \in DOMAIN last.pre.messages
        /\ last.pre.messages[m1].isPinned
        /\ ~last.pre.messages[m2].isPinned

\* the last request was an authorized delete of an existing message
DeletedLast ==
    /\ serial /\ AllIdle
    /\ AuthorizedDelete(last, RowOf(last.pre.messages, last.messageId))

\* the last request was a restore of an existing message by its author
RestoredLast ==
    /\ serial /\ AllIdle
    /\ AuthorRestore(last, RowOf(last.pre.messages, last.messageId))

\* the row is as an authorized delete leaves it
AsDeleted(row, pinnedBefore) ==
    /\ row.isDeleted
    /\ ~row.isPinned
    /\ row.wasPinned = pinnedBefore

\* C7: an authorized delete of a pinned message M leaves M deleted, not
\* pinned, with wasPinned set, and a restore by the author that finds M so
\* pins M again and clears wasPinned.  A delete of a message that is not
\* pinned sets no isPinned or wasPinned flag of any message, emits no
\* message_pinned event, and a restore that finds M so leaves M unpinned.
C7_DeleteRestorePin ==
    /\ DeletedLast =>
          LET m == last.messageId
              before == last.pre.messages IN
          /\ AsDeleted(messages[m], before[m].isPinned)
          /\ ~before[m].isPinned =>
                /\ \A i \in DOMAIN messages :
                      /\ messages[i].isPinned => before[i].isPinned
                      /\ messages[i].wasPinned => before[i].wasPinned
                /\ \A e \in Range(last.out) : e.ev # "message_pinned"
    /\ RestoredLast =>
          LET m == last.messageId
              before == last.pre.messages[m] IN
          /\ AsDeleted(before, TRUE) =>
                messages[m].isPinned /\ ~messages[m].wasPinned
          /\ AsDeleted(before, FALSE) => ~messages[m].isPinned

C7_Witness ==
    /\ RestoredLast
    /\ AsDeleted(last.pre.messages[last.messageId], TRUE)
    /\ messages[last.messageId].isPinned

C7_WitnessDeleted ==
    /\ DeletedLast
    /\ last.pre.messages[last.messageId].isPinned

----------------------------------------------------------------------------
(* Properties of the reaction toggler *)

\* the rows without their ids
Triples(rows) ==
    {[userId |-> r.userId, messageId |-> r.messageId, emoji |-> r.emoji] : r \in rows}

\* the rows of every triple but (u, m, e)
OtherRows(rows, u, m, e) == rows \ RowsOf(rows, u, m, e)

\* the last two requests were toggle_reaction(m, e) by the same user u, and
\* the first of them found no (u, m, e) row
ToggledTwice ==
    /\ serial /\ AllIdle
    /\ prev.op = "toggle" /\ last.op = "toggle"
    /\ prev.user = last.user /\ prev.messageId = last.messageId /\ prev.arg = last.arg
    /\ RowsOf(prev.pre.reactions, prev.user, prev.messageId, prev.arg) = {}

\* C4: two toggle_reaction(m, e) requests by u, run one after the other
\* from a store with no (u, m, e) row, leave the reaction store as it was
\* before the first (the row is absent again), and the rows of the other
\* triples are the same before, between and after the two.
C4_TogglePairRestores ==
    ToggledTwice =>
        LET u == last.user
            m == last.messageId
            e == last.arg IN
        /\ reactions = prev.pre.reactions
        /\ RowsOf(reactions, u, m, e) = {}
        /\ OtherRows(last.pre.reactions, u, m, e) = prev.pre.reactions

C4_Witness ==
    /\ ToggledTwice
    /\ RowsOf(last.pre.reactions, last.user, last.messageId, last.arg) # {}
    /\ prev.pre.reactions # {}

\* C5: there is at most one reaction row per (user, message, emoji), also
\* when two handlers of the same user, message and emoji both run their
\* existence check before either writes.
C5_OneRowPerTriple ==
    \A r1, r2 \in reactions :
        (r1.userId = r2.userId /\ r1.messageId = r2.messageId /\ r1.emoji = r2.emoji)
        => r1 = r2

\* a handler that found no row is about to create one that exists by now
C5_Witness ==
    \E h \in Slots :
        /\ handlers[h].pc = "toggle_create"
        /\ RowsOf(reactions, handlers[h].user, handlers[h].messageId, handlers[h].arg) # {}

----------------------------------------------------------------------------
(* Properties of the mention tracker *)

\* the last request was an edit_message that committed
EditedLast ==
    /\ serial /\ AllIdle
    /\ last.op = "edit"
    /\ Ev(General, "message_updated", last.messageId, last.arg) \in Range(last.out)

\* C6: after a successful edit_message on m every mention row of m has
\* isRead = false and readAt = null, whichever of them had been
\* acknowledged and by whom; the mentions of other messages are unchanged.
C6_EditResetsMentions ==
    EditedLast =>
        /\ DOMAIN mentions = DOMAIN last.pre.mentions
        /\ \A id \in DOMAIN mentions :
              IF mentions[id].messageId = last.messageId
              THEN /\ ~mentions[id].isRead
                   /\ mentions[id].readAt = Null
                   /\ mentions[id].userId = last.pre.mentions[id].userId
              ELSE mentions[id] = last.pre.mentions[id]

\* an edit of a message of which one mention was acknowledged and another
\* was not, while a mention of another message stays acknowledged
C6_Witness ==
    /\ EditedLast
    /\ \E i, j, k \in DOMAIN mentions :
          /\ mentions[i].messageId = last.messageId
          /\ last.pre.mentions[i].isRead
          /\ mentions[j].messageId = last.messageId
          /\ ~last.pre.mentions[j].isRead
          /\ mentions[k].messageId # last.messageId
          /\ mentions[k].isRead

----------------------------------------------------------------------------
(* Properties of the read-receipt aggregator *)

NoDuplicates(seq) ==
    \A i, j \in 1..Len(seq) : seq[i] = seq[j] => i = j

\* the pairs with a successful mark_read: the upsert of the request returned
MarkedPairs ==
    {p \in ReadPairs :
        \/ Inserted(receipts[p]) > 0
        \/ \E h \in Slots : /\ handlers[h].pc = "mark_read_buffer"
                             /\ handlers[h].messageId = p[1]
                             /\ handlers[h].user = p[2]}

\* C8: any number n >= 1 of successful mark_read requests for a (user,
\* message) pair leaves exactly one MessageRead row for the pair, and the
\* userIds of every message_read_update_batch event holds each user id at
\* most once.
C8_OneReceiptPerPair ==
    /\ \A p \in MarkedPairs : Cardinality(ReadsOf(messageReads, p[2], p[1])) = 1
    /\ \A r \in messageReads : <<r.messageId, r.userId>> \in MarkedPairs
    /\ \A i \in 1..Len(batches) : NoDuplicates(batches[i].arg)

\* two mark_read requests of one pair were flushed in one batch
C8_Witness ==
    \E p \in ReadPairs :
        /\ receipts[p].once >= 2
        /\ Carrying(batches, p[1], p[2]) = 1

\* no insertion was passed over, dropped or broadcast twice, and every
\* insertion that is in no event yet is in the buffer
EachReceiptOnce ==
    \A p \in ReadPairs :
        /\ receipts[p].bad = 0
        /\ receipts[p].held > 0 => Buffered(readReceiptBuffer, p[1], p[2])

Unbroadcast == \E p \in ReadPairs : receipts[p].held > 0

\* C9: under any interleaving of mark_read handlers with the flush tick
\* every insertion into the buffer is broadcast in exactly one
\* message_read_update_batch event, by the first flush after it (none is
\* dropped by the clear, none is broadcast twice), and every insertion is
\* broadcast eventually when the timer keeps firing.
C9_EachReceiptBroadcastOnce ==
    /\ []EachReceiptOnce
    /\ []<>(~Unbroadcast)
    /\ \A h \in Slots : []<>(handlers[h].pc # "mark_read_buffer")

\* an insertion was flushed while another handler of the same pair was
\* between its upsert and its insertion, and that insertion waits for the
\* next flush
C9_Witness ==
    \E p \in ReadPairs :
        /\ receipts[p].once >= 1
        /\ receipts[p].held >= 1

\* C10: two thread resolutions of the same message id with no store write
\* between them return the same root and the same replies in the same order.
C10_ThreadIdempotent ==
    (/\ serial
     /\ last.op = "thread"
     /\ prev.op = "thread"
     /\ last.messageId = prev.messageId)
    => /\ last.out[1].ev = prev.out[1].ev
       /\ last.out[1].ev = "thread" => last.out[1].arg = prev.out[1].arg

\* a reply of a reply was resolved twice in a row: the root is another
\* message and the thread has two replies
C10_Witness ==
    /\ serial
    /\ last.op = "thread"
    /\ prev.op = "thread"
    /\ last.messageId = prev.messageId
    /\ last.out[1].ev = "thread"
    /\ last.out[1].arg.root.id # last.messageId
    /\ Len(last.out[1].arg.replies) >= 2

----------------------------------------------------------------------------
(* Properties of the thread endpoint over any table *)

Resolving(h) == handlers[h].pc \in {"thread_up", "thread_down"}

\* C11: thread resolution terminates for every content of the message
\* store, parent links that form a cycle included: the walk up to the root
\* and the breadth-first expansion both stop after a bounded number of
\* store fetches, so a resolution that has started always ends.
C11_ThreadTerminates == \A h \in Slots : []<>(~Resolving(h))

----------------------------------------------------------------------------
(* Properties of the mention tracker *)

\* the last request was mark_mention_read of a mention that existed
AcknowledgedLast ==
    /\ serial
    /\ last.op = "mark_mention_read"
    /\ last.messageId \in DOMAIN last.pre.mentions

\* C12: a mark_mention_read request changes a mention's isRead and readAt
\* and triggers notifications only when the requesting user is the
\* mentioned user of that mention; a request by any other user leaves the
\* mention unchanged and sends no notification.
C12_OnlyMentionedUserAcknowledges ==
    (/\ AcknowledgedLast
     /\ last.pre.mentions[last.messageId].userId # last.user)
    => /\ mentions[last.messageId] = last.pre.mentions[last.messageId]
       /\ last.out = << >>

\* the mention rows of user u for message m
MentionsOf(rows, u, m) ==
    {i \in DOMAIN rows : rows[i].userId = u /\ rows[i].messageId = m}

\* the last request acknowledged a mention of the message sent by the
\* request before it, and the requester is the mentioned user
SentThenAcknowledged ==
    /\ AcknowledgedLast
    /\ prev.op = "send"
    /\ last.pre.mentions[last.messageId].messageId = prev.messageId
    /\ last.pre.mentions[last.messageId].userId = last.user

\* C13: when user A posts a message that mentions user B, one unread
\* mention row (B, message) exists; when B then acknowledges it, a
\* mention_read_status event naming B goes to A's sessions, a
\* my_mention_updated event goes to B's sessions, and the unread-mention
\* count of each of B's connected sessions decreases by exactly one.
C13_MentionAcknowledged ==
    /\ (serial /\ last.op = "send" /\ last.out[1].ev = "new_message")
       => \A i \in 1..Len(last.out[1].arg.mentions) :
            LET rows == MentionsOf(mentions, last.out[1].arg.mentions[i], last.messageId)
            IN /\ Cardinality(rows) = 1
               /\ \A id \in rows : ~mentions[id].isRead
    /\ SentThenAcknowledged
       => /\ \E ev \in Range(last.out) :
               /\ ev.to = UserRoom(prev.user)
               /\ ev.ev = "mention_read_status"
               /\ ev.arg.readByUserId = last.user
          /\ \E ev \in Range(last.out) :
               /\ ev.to = UserRoom(last.user)
               /\ ev.ev = "my_mention_updated"
          /\ \A c \in 0..MaxCount :
               LET mentioned == UnreadAfter(c, last.user, prev.out)
               IN UnreadAfter(mentioned, last.user, last.out) = mentioned - 1

\* user B acknowledged the mention in the message user A sent just before
C13_Witness ==
    /\ SentThenAcknowledged
    /\ prev.user # last.user

\* C14: in every step of every execution a mention's isRead changes from
\* false to true only by a mark_mention_read request for that mention, and
\* from true to false only by an edit_message of the message that owns the
\* mention; no other operation changes any mention's isRead.
C14_IsReadTransitions ==
    [][\A id \in DOMAIN mentions :
          /\ (~mentions[id].isRead /\ mentions'[id].isRead)
             => \E h \in Slots, u \in Users : MarkMentionRead(h, u, id)
          /\ (mentions[id].isRead /\ ~mentions'[id].isRead)
             => \E h \in Slots : /\ EditCommit(h)
                                 /\ handlers[h].messageId = mentions[id].messageId]_vars

\* a mention was acknowledged and then reset by an edit of its message,
\* while the mention of the other message is read
C14_Witness ==
    \E id \in DOMAIN mentions :
        /\ ~mentions[id].isRead
        /\ \E i \in 1..Len(editHistory) : editHistory[i].messageId = mentions[id].messageId
        /\ \E other \in DOMAIN mentions : mentions[other].isRead

----------------------------------------------------------------------------
(* Properties of delete and restore under interleaving *)

WasPinnedOnlyWhileDeleted ==
    \A m \in DOMAIN messages : messages[m].wasPinned => messages[m].isDeleted

\* C15: in every reachable state, under any interleaving of delete,
\* restore and pin requests, wasPinned = true implies isDeleted = true for
\* every message; and every restore leaves the restored message with
\* wasPinned = false.
C15_WasPinnedWhileDeleted ==
    /\ []WasPinnedOnlyWhileDeleted
    /\ [][\A h \in Slots :
            (/\ handlers[h].pc = "restore_update"
             /\ handlers'[h].pc = "idle"
             /\ Exists(handlers[h].messageId))
            => ~messages'[handlers[h].messageId].wasPinned]_vars

\* a message deleted while pinned was restored while a second restore of
\* it, which read it deleted with wasPinned = true, was waiting for its
\* update
C15_Witness ==
    \E h \in Slots :
        /\ handlers[h].pc = "restore_update"
        /\ handlers[h].msg.isDeleted
        /\ handlers[h].msg.wasPinned
        /\ ~messages[handlers[h].messageId].isDeleted
        /\ ~messages[handlers[h].messageId].wasPinned

----------------------------------------------------------------------------
(* Properties of the authorization guard *)

\* the last request was an edit_message of a message that existed
EditedExisting ==
    /\ serial
    /\ last.op = "edit"
    /\ last.messageId \in DOMAIN last.pre.messages

\* the requester was not the author, or the message was more than 5
\* minutes old when the request was made
EditForbidden ==
    LET msg == last.pre.messages[last.messageId] IN
    \/ msg.userId # last.user
    \/ last.pre.now - msg.createdAt > EditWindow

\* the request sent an error notice to its own session and nothing else
OnlyErrorNotice(out) ==
    /\ out # << >>
    /\ \A i \in 1..Len(out) : out[i].ev = "error" /\ out[i].to.room = "socket"

\* C16: an edit_message request by a user who is not the message's author,
\* or issued more than 5 minutes after the message's creation time, is
\* rejected: the message content, its EditHistory and its mentions are
\* unchanged, no message_updated event is broadcast, and an error notice
\* is emitted to the requesting session.
C16_EditRejected ==
    (EditedExisting /\ EditForbidden)
    => /\ messages = last.pre.messages
       /\ editHistory = last.pre.editHistory
       /\ mentions = last.pre.mentions
       /\ OnlyErrorNotice(last.out)

\* the author's edit of a message with an acknowledged mention was rejected
\* for its age
C16_Witness ==
    /\ EditedExisting
    /\ last.pre.messages[last.messageId].userId = last.user
    /\ last.pre.now - last.pre.messages[last.messageId].createdAt > EditWindow
    /\ \E id \in DOMAIN mentions :
          mentions[id].messageId = last.messageId /\ mentions[id].isRead

\* another user's edit of a fresh message was rejected
C16_WitnessAuthor ==
    /\ EditedExisting
    /\ last.pre.messages[last.messageId].userId # last.user
    /\ last.pre.now - last.pre.messages[last.messageId].createdAt <= EditWindow

\* the last request was a delete of an existing message by a user who is
\* neither its author nor the superuser
DeleteUnauthorized ==
    /\ serial /\ AllIdle
    /\ last.op = "delete"
    /\ IsRow(RowOf(last.pre.messages, last.messageId))
    /\ ~AuthorizedDelete(last, RowOf(last.pre.messages, last.messageId))

\* C17: a delete_message request takes effect only when the requester is
\* the message's author or the superuser (user id 1); a request by any
\* other user leaves isDeleted, isPinned and wasPinned of the message
\* unchanged, broadcasts neither message_deleted nor message_pinned, and
\* emits an error notice to the requesting session.
C17_DeleteUnauthorized ==
    /\ DeleteUnauthorized
       => /\ messages = last.pre.messages
          /\ OnlyErrorNotice(last.out)
    /\ DeletedLast
       => /\ messages[last.messageId].isDeleted
          /\ \E i \in 1..Len(last.out) : last.out[i].ev = "message_deleted"

\* a user who is neither the author nor the superuser asked for the delete
\* of a pinned message
C17_Witness ==
    /\ DeleteUnauthorized
    /\ last.pre.messages[last.messageId].isPinned

\* the last request named a message that did not exist
MissingTarget ==
    /\ serial /\ AllIdle
    /\ last.op \in {"delete", "edit"}
    /\ last.messageId \notin DOMAIN last.pre.messages

\* C18: a delete_message or an edit_message request whose target message
\* does not exist is a silent no-op: the store is unchanged, nothing is
\* broadcast, and no error notice is sent to the requesting session.
C18_MissingTargetSilent ==
    MissingTarget
    => /\ messages = last.pre.messages
       /\ editHistory = last.pre.editHistory
       /\ mentions = last.pre.mentions
       /\ last.out = << >>

\* the last request failed with an error notice
Failed == serial /\ last.op # "none" /\ \E i \in 1..Len(last.out) : last.out[i].ev = "error"

\* C19: no failure of any request ever produces an event on the shared
\* channel or on a session other than the initiating one: every error
\* notice is emitted only to the session that sent the failing request.
C19_ErrorsToInitiator ==
    Failed => \A i \in 1..Len(last.out) :
                 /\ last.out[i].ev = "error"
                 /\ last.out[i].to = last.socket

\* a pin_message request cleared the pin of another message and then failed
\* on its target
C19_Witness ==
    /\ Failed
    /\ last.op = "pin"
    /\ messages # last.pre.messages

\* the last request was an edit, a delete or a restore of an existing
\* message that the requester may not make
Unauthorized ==
    /\ serial /\ AllIdle
    /\ last.op \in {"edit", "delete", "restore"}
    /\ last.messageId \in DOMAIN last.pre.messages
    /\ last.pre.messages[last.messageId].userId # last.user
    /\ last.op = "delete" => last.user # SUPERUSER

\* C20: every authorization failure of an edit, delete or restore request
\* (the requester is not the author, and for delete is not the superuser
\* either) is reported back to the initiating session as an error notice.
C20_AuthorizationFailureReported ==
    Unauthorized => \E i \in 1..Len(last.out) :
                       /\ last.out[i].ev = "error"
                       /\ last.out[i].to = last.socket

----------------------------------------------------------------------------
(* Properties of the propagation policy *)

\* the last request was pin_message(isPinned = true) and it failed
PinFailed ==
    /\ serial /\ AllIdle
    /\ last.op = "pin"
    /\ last.arg
    /\ \E i \in 1..Len(last.out) : last.out[i].ev = "error"

\* C21: a pin_message(isPinned = true) request that fails on its target
\* (the target message does not exist) aborts completely: every message's
\* isPinned is the same as before the request and no message_pinned event
\* is broadcast.
C21_FailedPinAborts ==
    PinFailed
    => /\ \A m \in DOMAIN messages :
             messages[m].isPinned = last.pre.messages[m].isPinned
       /\ \A i \in 1..Len(last.out) : last.out[i].ev # "message_pinned"

----------------------------------------------------------------------------
(* Properties of the private rooms *)

PrivateEvents == {"bookmark_updated", "mention_read_status", "my_mention_updated"}

\* the user whom event ev of the completed request rec addresses: the
\* bookmarking user, the author of the mentioning message, the mentioned user
Addressed(rec, ev, u) ==
    IF ev.ev = "bookmark_updated"
    THEN IF rec.op = "bookmark" THEN u = rec.user
         ELSE BookmarksOf(bookmarks, u, ev.messageId) # {}
    ELSE IF ev.ev = "mention_read_status"
    THEN u = rec.pre.messages[ev.messageId].userId
    ELSE u = rec.pre.mentions[ev.arg.mentionId].userId

\* C22: bookmark_updated, mention_read_status and my_mention_updated events
\* are delivered only to sessions of the addressed user (the bookmarking
\* user, the author of the mentioning message, the mentioned user); no
\* session of another user receives one, and none goes to the shared channel.
C22_PrivateEventsToAddressee ==
    (serial /\ AllIdle /\ last.op # "none")
    => \A i \in 1..Len(last.out) :
          last.out[i].ev \in PrivateEvents
          => /\ last.out[i].to # General
             /\ \A me \in Users :
                   Receives(me, last.out[i]) => Addressed(last, last.out[i], me)

\* the author restored a message that another user had bookmarked
C22_Witness ==
    /\ serial /\ AllIdle
    /\ last.op = "restore"
    /\ \E i \in 1..Len(last.out) :
          /\ last.out[i].ev = "bookmark_updated"
          /\ last.out[i].to # UserRoom(last.user)

\* a mention was acknowledged and both notices were sent
C22_WitnessMention ==
    /\ serial /\ AllIdle
    /\ last.op = "mark_mention_read"
    /\ Len(last.out) = 2

----------------------------------------------------------------------------
(* Properties of a thread with a deleted parent *)

\* the replies of row p that are not deleted
LiveChildren(msgs, p) ==
    {i \in DOMAIN msgs : msgs[i].parentId = p /\ ~msgs[i].isDeleted}

\* the last request was a thread resolution that found its message
ResolvedLast ==
    /\ serial /\ AllIdle
    /\ last.op = "thread"
    /\ last.out[1].ev = "thread"

\* C23: soft-deleting a parent message P leaves every child M with
\* parentId still equal to P's id and M itself not deleted: thread
\* resolution from M or P still returns M among the replies, and M's
\* embedded parent reference reports isDeleted = true (in the thread
\* response and in the message list of a session that received
\* message_deleted).
C23_ChildrenOfDeletedParent ==
    /\ DeletedLast
       => \A m \in LiveChildren(last.pre.messages, last.messageId) :
             /\ messages[m] = last.pre.messages[m]
             /\ \E e \in Range(OnMessageDeleted(LoadedList(last.pre.messages),
                                                 last.messageId)) :
                   e.id = m /\ e.parent.isDeleted
    /\ ResolvedLast
       => \A p \in DOMAIN messages : \A m \in LiveChildren(messages, p) :
             (messages[p].isDeleted /\ last.messageId \in {m, p})
             => \E e \in Range(last.out[1].arg.replies) :
                   e.id = m /\ e.parent.isDeleted /\ e.row.parentId = p

\* a thread was resolved from a reply whose parent, itself a reply, is deleted
C23_Witness ==
    /\ ResolvedLast
    /\ \E p \in DOMAIN messages :
          /\ messages[p].isDeleted
          /\ messages[p].parentId # Null
          /\ last.messageId \in LiveChildren(messages, p)

\* a message with a reply was deleted
C23_WitnessDelete ==
    /\ DeletedLast
    /\ LiveChildren(last.pre.messages, last.messageId) # {}

----------------------------------------------------------------------------
(* Properties of the expiry sweep *)

SweptLast == serial /\ last.op = "sweep"

\* the messages that a sweep at the time of the last one had to remove
DueAtLast ==
    {i \in DOMAIN last.pre.messages :
        /\ last.pre.messages[i].expiresAt # Null
        /\ last.pre.messages[i].expiresAt < last.pre.now}

\* C24: each expiry sweep permanently removes exactly the messages whose
\* expiresAt is earlier than the sweep time, broadcasts one messages_expired
\* event to the shared channel if and only if at least one message was
\* removed, and broadcasts no message_deleted event for the removed messages.
C24_SweepRemovesExpired ==
    SweptLast
    => /\ DOMAIN messages = DOMAIN last.pre.messages \ DueAtLast
       /\ last.out = IF DueAtLast # {}
                     THEN <<Ev(General, "messages_expired", 0, "none")>>
                     ELSE << >>
       /\ \A i \in 1..Len(last.out) : last.out[i].ev # "message_deleted"

\* a sweep removed a message that was created with expiresAt in the past
\* and kept one that expires at the sweep time
C24_Witness ==
    /\ SweptLast
    /\ \E i \in DueAtLast : last.pre.messages[i].expiresAt < last.pre.messages[i].createdAt
    /\ \E i \in DOMAIN messages : messages[i].expiresAt = last.pre.now

----------------------------------------------------------------------------
(* Properties of the Device table *)

\* the sockets that have a Device row
Recorded == {d.socketId : d \in devices}

\* C25: under any interleaving of session connects and disconnects, once
\* all connect and disconnect handlers have finished, the Device rows
\* correspond exactly to the live sessions: one row for each connected
\* session id and no row for a session that has disconnected, including a
\* session that disconnects while its connect handler is still awaiting
\* the device-row creation.
C25_DevicesMatchSessions ==
    (Settled /\ AllIdle)
    => /\ Recorded = {s \in SocketIds : Live(s)}
       /\ \A s \in SocketIds :
             Cardinality({d \in devices : d.socketId = s}) <= 1

\* the last request was a device revocation
RevokedLast == serial /\ AllIdle /\ last.op = "revoke"

\* the Device row that the last request named, when the requester owns it
OwnedRows == {d \in DeviceRows(last.pre.devices, last.messageId) : d.userId = last.user}

\* socket s was connected when the last request started
WasLive(s) == last.pre.sockets[s].status \in {"creating", "open"}

\* C26: a device revocation requested by the device's owner removes that
\* device row and, if the session with the recorded session id is still
\* connected, emits force_logout to that one session and to no other and
\* disconnects it; a revocation of a missing device or of a device owned
\* by another user is rejected and changes no device row and no connection.
C26_RevocationTargeted ==
    RevokedLast
    => /\ \A d \in OwnedRows :
             /\ devices = last.pre.devices \ {d}
             /\ \A s \in SocketIds \ {d.socketId} : sockets[s] = last.pre.sockets[s]
             /\ IF WasLive(d.socketId)
                THEN /\ ~Live(d.socketId)
                     /\ Len(last.out) = 1
                     /\ last.out[1].ev = "force_logout"
                     /\ last.out[1].to = Session(d.socketId)
                ELSE /\ sockets = last.pre.sockets
                     /\ last.out = << >>
       /\ OwnedRows = {}
          => /\ devices = last.pre.devices
             /\ sockets = last.pre.sockets
             /\ Len(last.out) = 1
             /\ last.out[1].ev = "error"
             /\ last.out[1].to = last.socket

\* a user with two connected sessions revoked the device of one of them
C26_Witness ==
    /\ RevokedLast
    /\ \E d \in OwnedRows :
          /\ WasLive(d.socketId)
          /\ \E s \in SocketIds \ {d.socketId} :
                Live(s) /\ sockets[s].user = last.user

\* a revocation of another user's device was rejected
C26_WitnessRejected ==
    /\ RevokedLast
    /\ OwnedRows = {}
    /\ DeviceRows(last.pre.devices, last.messageId) # {}

----------------------------------------------------------------------------
(* Properties of the breadth-first expansion *)

\* message i is a reply, at any depth, to message root
RECURSIVE Under(_, _, _)
Under(msgs, i, root) ==
    /\ msgs[i].parentId \in DOMAIN msgs
    /\ (msgs[i].parentId = root \/ Under(msgs, msgs[i].parentId, root))

Descendants(msgs, root) == {i \in DOMAIN msgs : Under(msgs, i, root)}

\* C27: for a start message whose reply tree is at most 50 levels deep,
\* thread resolution returns as replies exactly the transitive descendants
\* of the root: each descendant once, the root itself excluded,
\* soft-deleted descendants included, ordered by creation time ascending.
C27_RepliesAreDescendants ==
    ResolvedLast
    => LET root == last.out[1].arg.root.id
           replies == last.out[1].arg.replies IN
       /\ {replies[i].id : i \in 1..Len(replies)} = Descendants(last.pre.messages, root)
       /\ \A i, j \in 1..Len(replies) :
             /\ replies[i].id = replies[j].id => i = j
             /\ i < j => replies[i].row.createdAt <= replies[j].row.createdAt
       /\ \A i \in 1..Len(replies) :
             /\ replies[i].id # root
             /\ replies[i].row = last.pre.messages[replies[i].id]

\* the thread of a root with a reply and a reply to that reply, one of
\* them deleted, created at different times
C27_Witness ==
    /\ ResolvedLast
    /\ LET replies == last.out[1].arg.replies IN
       /\ Len(replies) = 2
       /\ replies[2].row.parentId = replies[1].id
       /\ replies[1].row.isDeleted
       /\ replies[1].row.createdAt < replies[2].row.createdAt

----------------------------------------------------------------------------
(* Properties of concurrent requests on one message *)

\* the oldContent of the MessageHistory rows of message m, in creation order
OldContents(m) ==
    LET rows == SelectSeq(editHistory, LAMBDA r : r.messageId = m)
    IN [k \in 1..Len(rows) |-> rows[k].oldContent]

\* the history that n edits to "b" of a message created as "a" leave when
\* they run one after the other, in any order
SerialHistory(n) == [k \in 1..n |-> IF k = 1 THEN "a" ELSE "b"]

\* C28: for one message, any interleaving of concurrent edit, delete and
\* restore requests leaves that message in a state equal to the result of
\* running the same requests in some serial order: content is the content
\* of the last edit in that order and EditHistory holds in order exactly
\* the content each edit replaced.
C28_EditsSerializable ==
    AllIdle
    => \A m \in DOMAIN messages :
          /\ OldContents(m) = SerialHistory(Len(OldContents(m)))
          /\ messages[m].content = IF OldContents(m) = << >> THEN "a" ELSE "b"

----------------------------------------------------------------------------
(* Properties of the client's pins *)

\* the messages whose entry in the session's list has isPinned
ClientFlags == {i \in DOMAIN client.isPinned : client.isPinned[i]}

\* the message of the pinned banner
ClientBanner == IF client.pinnedMessage = Null THEN {} ELSE {client.pinnedMessage}

\* C29: for a connected client in live view that has received every
\* broadcast, once no event is in flight the set of messages the client
\* marks as pinned (per-message isPinned flags and the pinned banner)
\* equals the set of messages with isPinned = true at the server, after
\* any sequence of pin, unpin, delete and restore requests.
C29_ClientPinsMatchServer ==
    (serial /\ AllIdle /\ client.live)
    => /\ ClientFlags = Pinned
       /\ ClientBanner = Pinned

----------------------------------------------------------------------------
(* Properties of the walk up *)

\* message r is message i or one of the messages above it
RECURSIVE OnChain(_, _, _)
OnChain(msgs, i, r) ==
    \/ r = i
    \/ /\ msgs[i].parentId \in DOMAIN msgs
       /\ OnChain(msgs, msgs[i].parentId, r)

\* the last request was a call of the thread endpoint
ThreadLast == serial /\ AllIdle /\ last.op = "thread"

\* C30: thread resolution of an id with no message reports Not Found; for
\* an existing message x the returned root is the message reached from x by
\* following parentId until a message with no parentId, or whose referenced
\* parent cannot be found, is reached, and that message is returned as root
\* without an error.
C30_RootOfThread ==
    ThreadLast
    => IF last.messageId \notin DOMAIN last.pre.messages
       THEN /\ Len(last.out) = 1
            /\ last.out[1].ev = "error"
            /\ last.out[1].arg = "Message not found"
       ELSE /\ Len(last.out) = 1
            /\ last.out[1].ev = "thread"
            /\ LET r == last.out[1].arg.root.id
                   up == last.pre.messages[r].parentId IN
               /\ OnChain(last.pre.messages, last.messageId, r)
               /\ up = Null \/ up \notin DOMAIN messages

\* the parent of the message was removed while the resolution awaited: the
\* message itself is the root
C30_Witness ==
    /\ ThreadLast
    /\ last.messageId \in DOMAIN last.pre.messages
    /\ last.out[1].ev = "thread"
    /\ last.pre.messages[last.out[1].arg.root.id].parentId # Null

\* the root of a reply was resolved
C30_WitnessRoot ==
    /\ ThreadLast
    /\ last.messageId \in DOMAIN last.pre.messages
    /\ last.out[1].ev = "thread"
    /\ last.out[1].arg.root.id # last.messageId

----------------------------------------------------------------------------
(* Properties of one flush tick *)

\* this step is a tick that sent events or took entries out of the buffer
FlushedNow ==
    \/ batches' # batches
    \/ Len(readReceiptBuffer') < Len(readReceiptBuffer)

\* C31: a flush tick that finds the read-receipt buffer empty emits no
\* event; a tick that finds it non-empty emits exactly one
\* message_read_update_batch event per buffered message id, each carrying
\* exactly the user ids buffered for that message, and leaves the buffer
\* empty.
C31_FlushTick ==
    [][/\ readReceiptBuffer = << >> => batches' = batches
       /\ FlushedNow
          => /\ readReceiptBuffer' = << >>
             /\ Len(batches') = Len(readReceiptBuffer)
             /\ \A i \in 1..Len(readReceiptBuffer) :
                   /\ batches'[i].ev = "message_read_update_batch"
                   /\ batches'[i].to = General
                   /\ batches'[i].messageId = readReceiptBuffer[i].messageId
                   /\ batches'[i].arg = readReceiptBuffer[i].userIds
             /\ \A i, j \in 1..Len(readReceiptBuffer) :
                   readReceiptBuffer[i].messageId = readReceiptBuffer[j].messageId
                   => i = j]_vars

\* a tick has sent the receipts of two messages, one of them read by two
\* users, and the buffer is empty
C31_Witness ==
    /\ readReceiptBuffer = << >>
    /\ Len(batches) = 2
    /\ \E i \in 1..2 : Len(batches[i].arg) = 2

----------------------------------------------------------------------------
(* Link previews *)

\* a message, with or without a URL, sent while the table holds fewer than
\* MaxMsgs messages
SendLink(h, u, content, replyToId, expiresAt) ==
    /\ nextMessageId <= MaxMsgs
    /\ SendHandler(h, u, content, replyToId, {}, expiresAt)

\* messages with and without a URL, replies to the first message (which
\* fail while there is none), the outcomes of the preview fetch, the clock,
\* and the sweep while a preview is pending
NextPreview ==
    \/ Wait(1, 1 + MaxNow)
    \/ SweepOverlapping
    \/ \E h \in Slots :
        \/ \E u \in Users, content \in {"a", "http://a"}, parent \in {Null, 1},
              e \in {Null, 1} : SendLink(h, u, content, parent, e)
        \/ PreviewFetched(h)
        \/ PreviewFailed(h)

SpecPreviewSerial == InitSerial /\ [][NextPreview]_vars

\* the positions of an event name in a sequence of events
Positions(out, name) == {i \in 1..Len(out) : out[i].ev = name}

\* C32: new_message is emitted before any message_updated caused by its
\* link preview, and the send handler does not wait for the preview fetch:
\* while the fetch is pending, new_message has been emitted and
\* linkMetadata is null.  If the fetch fails or reports no success,
\* linkMetadata stays null, no message_updated is broadcast and no error
\* notice is sent to the sender.
C32_PreviewAfterNewMessage ==
    /\ \A h \in Slots :
          handlers[h].pc = "ogs"
          => /\ Positions(handlers[h].out, "new_message") = {1}
             /\ handlers[h].out[1].messageId = handlers[h].messageId
             /\ Positions(handlers[h].out, "message_updated") = {}
             /\ Exists(handlers[h].messageId)
                => messages[handlers[h].messageId].linkMetadata = "null"
    /\ last.op = "send"
       => /\ \A i \in Positions(last.out, "message_updated") :
                /\ last.out[i].messageId = last.messageId
                /\ \E j \in Positions(last.out, "new_message") :
                      j < i /\ last.out[j].messageId = last.messageId
          /\ Positions(last.out, "new_message") # {}
             => Positions(last.out, "error") = {}
          /\ Positions(last.out, "message_updated") = {} /\ Exists(last.messageId)
             => messages[last.messageId].linkMetadata = "null"

\* the preview of a message with a URL has failed: the message is stored,
\* its handler has emitted new_message only
C32_Witness ==
    /\ last.op = "send"
    /\ AllIdle
    /\ Exists(last.messageId)
    /\ HasUrl(messages[last.messageId].content)
    /\ messages[last.messageId].linkMetadata = "null"
    /\ Len(last.out) = 1

----------------------------------------------------------------------------
(* Events of toggle_reaction *)

\* this step ends a toggle_reaction request
ToggleEnds ==
    \E h \in Slots : /\ handlers[h].pc \in {"toggle_delete", "toggle_create"}
                     /\ handlers'[h].pc = "idle"

\* the one event of the request that ended describes row r
ReactionEvent(name, r) ==
    /\ Len(last'.out) = 1
    /\ last'.out[1].ev = name
    /\ last'.out[1].to = General
    /\ last'.out[1].messageId = r.messageId
    /\ last'.out[1].arg.emoji = r.emoji
    /\ last'.out[1].arg.userId = r.userId

\* C33: each toggle_reaction that changes the store broadcasts exactly one
\* matching event: message_reaction_removed with {messageId, emoji, userId}
\* after deleting the row, or message_reaction_added carrying the created
\* row after creating it; a toggle that changes no row broadcasts nothing.
C33_ToggleBroadcast ==
    [][/\ reactions' # reactions
          => /\ ToggleEnds
             /\ \/ /\ reactions' \subseteq reactions
                   /\ \E r \in reactions :
                         /\ reactions \ reactions' = {r}
                         /\ ReactionEvent("message_reaction_removed", r)
                \/ /\ reactions \subseteq reactions'
                   /\ \E r \in reactions' :
                         /\ reactions' \ reactions = {r}
                         /\ ReactionEvent("message_reaction_added", r)
                         /\ last'.out[1].arg.id = r.id
       /\ ToggleEnds /\ reactions' = reactions => last'.out = << >>]_vars

\* a reaction of the second user has been removed while the first user's
\* reaction with the same emoji stays
C33_Witness ==
    /\ last.op = "toggle"
    /\ last.user = 2
    /\ Len(last.out) = 1
    /\ last.out[1].ev = "message_reaction_removed"
    /\ \E r \in reactions : r.userId = 1 /\ r.emoji = last.arg

----------------------------------------------------------------------------
(* Events of delete_message *)

\* overlapping pin, unpin, delete and restore requests on message 1,
\* observed by a session
SpecDeleteRace == InitClientConcurrent /\ [][NextPinRace]_vars

\* this step is the update of a delete request on slot h that finds its row
DeleteSucceeds(h) ==
    /\ handlers[h].pc = "delete_update"
    /\ handlers'[h].pc = "idle"
    /\ Exists(handlers[h].messageId)

\* C34: every successful delete broadcasts one message_deleted event
\* carrying only the message id; it also broadcasts message_pinned with
\* isPinned = false for that id if and only if the message was pinned at
\* the moment it became deleted.
C34_DeleteBroadcast ==
    [][\A h \in Slots :
          DeleteSucceeds(h)
          => LET m == handlers[h].messageId
                 out == last'.out
                 unpins == {i \in Positions(out, "message_pinned") :
                               out[i].messageId = m /\ out[i].arg = FALSE} IN
             /\ last'.op = "delete"
             /\ Cardinality(Positions(out, "message_deleted")) = 1
             /\ \A i \in Positions(out, "message_deleted") :
                   out[i] = Ev(General, "message_deleted", m, "none")
             /\ Positions(out, "message_pinned") = unpins
             /\ unpins # {} <=> messages[m].isPinned]_vars

----------------------------------------------------------------------------
(* Effects and events of restore_message *)

\* one message whose author is the second user: pin, delete and restore
\* requests of both users on it, and the bookmarks of both users
NextRestore ==
    \E h \in Slots :
        \/ SendMessage(h, SUPERUSER + 1, "a", Null, {})
        \/ PinClear(h, 1)
        \/ PinSet(h)
        \/ \E u \in Users : DeleteRead(h, u, 1)
        \/ DeleteUpdate(h)
        \/ \E u \in Users : RestoreRead(h, u, 1)
        \/ RestoreUpdate(h)
        \/ \E u \in Users : BookmarkFind(h, u, 1)
        \/ BookmarkDelete(h)
        \/ BookmarkCreate(h)
        \/ BookmarkEmit(h)

SpecRestoreSerial == InitSerial /\ [][NextRestore]_vars

\* the users who hold a bookmark on message m
Holders(m) == {r.userId : r \in {b \in bookmarks : b.messageId = m}}

\* the last request was a restore of an existing message by another user
\* than its author
StrangerRestoredLast ==
    /\ serial /\ AllIdle
    /\ last.op = "restore"
    /\ last.messageId \in DOMAIN last.pre.messages
    /\ last.pre.messages[last.messageId].userId # last.user

\* C35: a restore by the author sets isDeleted = false, isPinned to the
\* prior wasPinned and wasPinned = false, broadcasts message_restored with
\* the entity as stored, broadcasts message_pinned with isPinned = true if
\* and only if the restore pinned the message again, and sends
\* bookmark_updated (bookmarked = true) to exactly the users who hold a
\* bookmark on the message; a restore request by a non-author changes
\* nothing and emits nothing.
C35_RestoreEffects ==
    /\ RestoredLast =>
          LET m == last.messageId
              before == last.pre.messages[m]
              out == last.out
              notices == Positions(out, "bookmark_updated") IN
          /\ messages[m] = [before EXCEPT !.isDeleted = FALSE,
                                          !.isPinned = before.wasPinned,
                                          !.wasPinned = FALSE]
          /\ Positions(out, "message_restored") = {1}
          /\ out[1].to = General
          /\ out[1].messageId = m
          /\ out[1].arg.isPinned = messages[m].isPinned
          /\ \A i \in Positions(out, "message_pinned") :
                out[i] = Ev(General, "message_pinned", m, TRUE)
          /\ Positions(out, "message_pinned") # {} <=> messages[m].isPinned
          /\ Cardinality(Positions(out, "message_pinned")) <= 1
          /\ \A i \in notices : out[i].messageId = m /\ out[i].arg = TRUE
          /\ {out[i].to : i \in notices} = {UserRoom(u) : u \in Holders(m)}
          /\ Cardinality(notices) = Cardinality(Holders(m))
          /\ Len(out) = 1 + Cardinality(Positions(out, "message_pinned"))
                          + Cardinality(notices)
    /\ StrangerRestoredLast =>
          /\ last.out = << >>
          /\ messages = last.pre.messages
          /\ mentions = last.pre.mentions
          /\ editHistory = last.pre.editHistory

\* the author restored a deleted message that had been pinned and that
\* both users hold a bookmark on
C35_Witness ==
    /\ RestoredLast
    /\ last.pre.messages[last.messageId].isDeleted
    /\ messages[last.messageId].isPinned
    /\ Cardinality(Holders(last.messageId)) = 2

\* a user who is not the author asked for the restore of a deleted message
C35_WitnessStranger ==
    /\ StrangerRestoredLast
    /\ messages[last.messageId].isDeleted

----------------------------------------------------------------------------
(* The parent relation *)

\* a message sent with replyToId and expiresAt while the table holds fewer
\* than MaxThread messages
SendThread(h, u, replyToId, expiresAt) ==
    /\ nextMessageId <= MaxThread
    /\ SendHandler(h, u, "a", replyToId, {}, expiresAt)

\* messages that expire in the first minute or never, sent as replies to
\* any id (of a message, of the message being created, of none), the
\* delete and restore of the first message, the clock and the sweep
NextParent ==
    \/ Wait(1, 1 + MaxNow)
    \/ Sweep
    \/ \E h \in Slots :
        \/ \E parent \in 0..MaxThread, e \in {Null, 1} :
               SendThread(h, SUPERUSER, parent, e)
        \/ DeleteRead(h, SUPERUSER, 1)
        \/ DeleteUpdate(h)
        \/ RestoreRead(h, SUPERUSER, 1)
        \/ RestoreUpdate(h)

SpecParentSerial == InitSerial /\ [][NextParent]_vars

\* the message reached from i by n parent links (Null when the chain ends
\* before)
RECURSIVE Ancestor(_, _, _)
Ancestor(msgs, i, n) ==
    IF i \notin DOMAIN msgs THEN Null
    ELSE IF n = 0 THEN i
    ELSE Ancestor(msgs, msgs[i].parentId, n - 1)

\* no message is reached from itself by parent links
Acyclic(msgs) ==
    \A i \in DOMAIN msgs :
        \A n \in 1..Cardinality(DOMAIN msgs) : Ancestor(msgs, i, n) # i

\* a step sets the parentId of a new message to null or to a message that
\* exists, and changes the parentId of no other message except to null
\* when its parent is removed for good
ParentKept ==
    \A i \in DOMAIN messages' :
        IF i \in DOMAIN messages
        THEN \/ messages'[i].parentId = messages[i].parentId
             \/ /\ messages'[i].parentId = Null
                /\ messages[i].parentId \in DOMAIN messages
                /\ messages[i].parentId \notin DOMAIN messages'
        ELSE messages'[i].parentId \in DOMAIN messages \cup {Null}

----------------------------------------------------------------------------
(* Thread resolutions from two messages of one tree *)

\* the message without a parent that the parent links of i lead to
TreeRoot(msgs, i) ==
    CHOOSE r \in DOMAIN msgs :
        /\ \E n \in 0..Cardinality(DOMAIN msgs) : Ancestor(msgs, i, n) = r
        /\ msgs[r].parentId \notin DOMAIN msgs

\* the last two requests were thread resolutions of existing messages of
\* one reply tree, with no write between them
SameTreeTwice ==
    /\ serial /\ AllIdle
    /\ last.op = "thread" /\ prev.op = "thread"
    /\ last.pre.messages = prev.pre.messages
    /\ last.messageId \in DOMAIN last.pre.messages
    /\ prev.messageId \in DOMAIN last.pre.messages
    /\ TreeRoot(last.pre.messages, last.messageId)
          = TreeRoot(last.pre.messages, prev.messageId)

\* C37: for any two existing messages a and b of the same reply tree (of
\* depth at most 50), thread resolution from a and from b, with no write
\* in between, return the same root and the same ordered replies.
C37_SameThreadFromAnyMember ==
    SameTreeTwice
    => /\ last.out[1].ev = "thread" /\ prev.out[1].ev = "thread"
       /\ last.out[1].arg.root = prev.out[1].arg.root
       /\ last.out[1].arg.replies = prev.out[1].arg.replies
       /\ last.out[1].arg.root.id = TreeRoot(last.pre.messages, last.messageId)

\* the root of a tree and then a reply of a reply were resolved: the
\* thread has two replies
C37_Witness ==
    /\ SameTreeTwice
    /\ prev.messageId = last.out[1].arg.root.id
    /\ last.messageId # prev.messageId
    /\ last.pre.messages[last.messageId].parentId # prev.messageId
    /\ Len(last.out[1].arg.replies) >= 2

----------------------------------------------------------------------------
(* Deleted messages and the pin *)

\* C38: no message is soft-deleted and pinned at the same time: isDeleted =
\* true implies isPinned = false in every reachable state, after any
\* sequence of pin, unpin, delete and restore requests.
C38_DeletedNotPinned ==
    \A i \in DOMAIN messages : messages[i].isDeleted => ~messages[i].isPinned

\* the three flags that delete and restore write
Flags(row) ==
    [isDeleted |-> row.isDeleted, isPinned |-> row.isPinned,
     wasPinned |-> row.wasPinned]

\* C39: a restore_message request by the author on a message that is not
\* soft-deleted leaves that message's isDeleted, isPinned and wasPinned
\* unchanged.
C39_RestoreOfActiveKeepsFlags ==
    (/\ RestoredLast
     /\ ~last.pre.messages[last.messageId].isDeleted)
    => Flags(messages[last.messageId]) = Flags(last.pre.messages[last.messageId])

----------------------------------------------------------------------------
(* What delete and restore leave alone *)

\* this step belongs to a delete_message or restore_message request on slot h
DeleteOrRestoreStep(h) ==
    \/ handlers[h].op \in {"delete", "restore"} /\ handlers'[h] # handlers[h]
    \/ handlers'[h].op \in {"delete", "restore"} /\ handlers'[h] # handlers[h]

\* row after differs from row before in the three flags at most
OnlyFlagsDiffer(before, after) ==
    after = [before EXCEPT !.isDeleted = after.isDeleted,
                           !.isPinned = after.isPinned,
                           !.wasPinned = after.wasPinned]

\* C40: soft delete and restore change only isDeleted, isPinned and
\* wasPinned of the target message: its content, parentId, EditHistory,
\* mentions, reactions, bookmarks and read receipts are unchanged, and no
\* field of any other message changes.
C40_DeleteRestoreFrame ==
    [][\A h \in Slots :
          DeleteOrRestoreStep(h)
          => LET m == IF handlers[h].op = "idle" THEN handlers'[h].messageId
                      ELSE handlers[h].messageId IN
             /\ DOMAIN messages' = DOMAIN messages
             /\ \A i \in DOMAIN messages :
                   IF i = m THEN OnlyFlagsDiffer(messages[i], messages'[i])
                   ELSE messages'[i] = messages[i]
             /\ editHistory' = editHistory
             /\ mentions' = mentions
             /\ reactions' = reactions
             /\ bookmarks' = bookmarks
             /\ messageReads' = messageReads]_vars

\* an edited message with a mention, a reaction, a bookmark and a read
\* receipt has been deleted and restored by its author
C40_Witness ==
    /\ RestoredLast
    /\ last.pre.messages[last.messageId].isDeleted
    /\ ~messages[last.messageId].isDeleted
    /\ \E r \in reactions : r.messageId = last.messageId
    /\ \E b \in bookmarks : b.messageId = last.messageId
    /\ \E r \in messageReads : r.messageId = last.messageId
    /\ \E i \in DOMAIN mentions : mentions[i].messageId = last.messageId
    /\ \E i \in 1..Len(editHistory) : editHistory[i].messageId = last.messageId

====
